---- MODULE Spec2Model ----
(***************************************************************************)
(* Billing webhook state machine (BillingService), entitlement resolution  *)
(* (EntitlementService) and its tag-indexed cache                          *)
(* (InMemoryEntitlementCache) of the book-snippets backend.                *)
(*                                                                         *)
(* Time is counted in seconds since the start of the run.  An absent       *)
(* Optional[datetime] is NoTime, an absent Optional[str] is NULL.          *)
(***************************************************************************)
EXTENDS Integers, Sequences, FiniteSets, TLC

\* ---------------------------------------------------------------- bounds
\* largest seat_quantity carried by a webhook payload; member counts range
\* over -1 .. MaxSeats + 1
MaxSeats == 1
\* how many times the clock advances (by half a cache TTL each time)
MaxClockAdvances == 2
\* largest quantity of a storage add-on grant
MaxQuantity == 1
\* the number of add-on grants provisioned on one subscription
MaxGrants == 2
\* the number of times an override is merged into the same bundle
MaxMerges == 2

\* ------------------------------------------------------- program constants
grace_period_days == 7

\* OrganizationService.invitation_ttl, in days
invitation_ttl_days == 7
ttl_seconds == 300
MinTtlSeconds == 60
\* the default block threshold 1.10, in hundredths
_DEFAULT_BLOCK_THRESHOLD == 110

Max(a, b) == IF a >= b THEN a ELSE b

NULL == "null"
NoTime == 0 - 1
SecondsPerDay == 24 * 60 * 60
\* the time that passes between two operations when the clock advances
\* the lifetime of a provider checkout session: 30 minutes
CheckoutSessionSeconds == 30 * 60

ClockStep == Max(ttl_seconds, MinTtlSeconds) \div 2

\* ------------------------------------------------------------ enumerations
PlanKey == {"free", "individual_pro", "team"}
SubscriptionStatus == {"active", "canceled", "past_due"}
BillingCustomerType == {"user", "organization"}
PurchaseIntentStatus == {"pending", "completed", "expired", "canceled"}
SubscriptionEventTypes ==
    {"subscription.created", "subscription.updated", "subscription.canceled"}
BillingWebhookEventType ==
    SubscriptionEventTypes \cup {"invoice.payment_failed", "invoice.payment_succeeded"}
SeatReconciliationOutcome ==
    {"in_sync", "updated", "overage_requires_action", "under_utilized"}

\* --------------------------------------------------------- identifier pools
SubIds == {"sub_1", "sub_2"}
CallIds == {"c1", "c2", "c3"}
EventIds == {"evt_1", "evt_2"}
InvoiceIds == {"in_1"}
IntentIds == {"pi_1"}
SessionIds == {"cs_1"}
UserIds == {"u1", "u2"}
OrgIds == {"o1"}

\* the subscriptions the provider reports on; the other ids stay unknown
ProviderSubIds == {"sub_1"}
\* the customers of the provider, each with the plan it buys
Customers ==
    {[type |-> "user", id |-> "u1", plan_key |-> "individual_pro"],
     [type |-> "organization", id |-> "o1", plan_key |-> "team"]}

VARIABLES
    now,               \* the wall clock
    subscriptions,     \* billing_subscriptions: subscription_id -> Subscription
    invoices,          \* billing_invoices: invoice_id -> InvoiceRecord
    webhook_events,    \* billing_webhook_events: the recorded event ids
    purchase_intents,  \* billing_purchase_intents: intent_id -> PurchaseIntent
    event_audits,      \* audit entries logged while processing each event id
    add_ons,           \* add-on grants of each subscription: id -> AddOnGrants
    memberships,       \* <<user_id, organization_id>> -> role
    entries,           \* InMemoryEntitlementCache._entries: key -> _CacheEntry
    in_flight,         \* the concurrent requests: call id -> how far it has run
    org_memberships,   \* <<organization_id, user_id>> -> OrganizationMembership
    invitations,       \* invitation token -> MembershipInvitation
    last               \* the operation that ran last: its arguments, what it
                       \* returned or raised, and the collaborator calls it made

vars == <<now, subscriptions, invoices, webhook_events, purchase_intents,
          event_audits, add_ons, memberships, entries, in_flight,
          org_memberships, invitations, last>>

\* ------------------------------------------------------------------ helpers
\* the entry of a dict, or the empty set when the key is absent
Lookup(dict, key) == IF key \in DOMAIN dict THEN {dict[key]} ELSE {}

\* dict[key] = value
Put(dict, key, value) ==
    [k \in DOMAIN dict \cup {key} |-> IF k = key THEN value ELSE dict[k]]

\* what `last` holds when a field does not apply to the operation
NoCall ==
    [op |-> "init", subscription_id |-> NULL, event_id |-> NULL,
     event_type |-> NULL, invoice_id |-> NULL,
     member_count |-> 0, result |-> "ok", outcome |-> NULL,
     duplicate |-> FALSE, provider_raises |-> FALSE, audits |-> <<>>, notifications |-> <<>>,
     invalidations |-> <<>>, provider_calls |-> <<>>, recorded |-> <<>>,
     subject |-> {}, tag_set |-> {}, returned |-> {}]

\* ------------------------------------------------- BillingRepository (store)
\* INSERT ... ON CONFLICT (subscription_id) DO UPDATE
upsert_subscription(subs, subscription) ==
    Put(subs, subscription.subscription_id, subscription)

\* an update that writes the status and leaves the grace deadline as it was
update_status_only(subs, subscription_id, status, grace) ==
    IF subscription_id \in DOMAIN subs
    THEN [subs EXCEPT ![subscription_id].status = status]
    ELSE subs

\* UPDATE billing_subscriptions SET status, grace_period_expires_at WHERE id
update_subscription_status(subs, subscription_id, status, grace) ==
    IF subscription_id \in DOMAIN subs
    THEN [subs EXCEPT ![subscription_id].status = status,
                      ![subscription_id].grace_period_expires_at = grace]
    ELSE subs

\* INSERT ... ON CONFLICT (invoice_id) DO UPDATE
\* a store that drops the invoice
record_invoice_discarded(invs, invoice) == invs

record_invoice(invs, invoice) == Put(invs, invoice.invoice_id, invoice)

\* a store that reports every insert as a conflict
record_webhook_event_lost(events, event_id) == FALSE

\* a store without the primary key on event_id: every insert succeeds
record_webhook_event_unkeyed(events, event_id) == TRUE

\* INSERT ... ON CONFLICT (event_id) DO NOTHING; TRUE iff a row was inserted
record_webhook_event(events, event_id) == event_id \notin events

\* UPDATE billing_purchase_intents SET status = 'completed' WHERE intent_id
\* INSERT ... ON CONFLICT (intent_id) DO UPDATE
save_purchase_intent(intents, intent) == Put(intents, intent.intent_id, intent)

\* metadata.get(key)
MetadataGet(metadata, key) ==
    IF key \in DOMAIN metadata THEN metadata[key] ELSE NULL

\* an UPDATE that completes pending intents only
mark_pending_intent_completed(intents, intent_id) ==
    IF intent_id \in DOMAIN intents /\ intents[intent_id].status = "pending"
    THEN [intents EXCEPT ![intent_id].status = "completed"]
    ELSE intents

\* UPDATE billing_purchase_intents SET status = completed WHERE intent_id
mark_purchase_intent_completed(intents, intent_id) ==
    IF intent_id \in DOMAIN intents
    THEN [intents EXCEPT ![intent_id].status = "completed"]
    ELSE intents

\* SELECT ... WHERE provider_session_id = session_id LIMIT 1
get_purchase_intent_by_session(intents, session_id) ==
    {intents[i] : i \in {j \in DOMAIN intents :
                            intents[j].provider_session_id = session_id}}

\* ------------------------------------------------------- BillingService
Tag(kind, id) == [kind |-> kind, id |-> id]

\* an invalidation that forgets the owner of the subscription
_invalidate_subscription_only(subscription) ==
    << Tag("subscription", subscription.subscription_id) >>

\* an invalidation that treats every customer as a user
_invalidate_as_user(subscription) ==
    << Tag("subscription", subscription.subscription_id),
       Tag("user", subscription.customer_id) >>

\* the invalidator calls made for a subscription, in call order
_invalidate_entitlements(subscription) ==
    << Tag("subscription", subscription.subscription_id),
       IF subscription.customer_type = "user"
       THEN Tag("user", subscription.customer_id)
       ELSE Tag("organization", subscription.customer_id) >>

\* an audit event logged as an update whatever happened
AuditEventUntyped(type, subscription, invoice_id) ==
    [event_type |-> "subscription_updated",
     subscription_id |-> subscription.subscription_id,
     actor_id |-> subscription.customer_id, invoice_id |-> invoice_id]

\* BillingAuditEvent
AuditEvent(type, subscription, invoice_id) ==
    [event_type |-> type, subscription_id |-> subscription.subscription_id,
     actor_id |-> subscription.customer_id, invoice_id |-> invoice_id]

\* a BillingNotifier call: the subscription it is about and its arguments
Notification(kind, subscription, invoice_id, grace, member_count) ==
    [kind |-> kind, subscription_id |-> subscription.subscription_id,
     seat_quantity |-> subscription.seat_quantity, invoice_id |-> invoice_id,
     grace_period_expires_at |-> grace, member_count |-> member_count]

\* the state and the collaborator calls an operation leaves behind
Effect(subs, invs, audits, notes, invals, result) ==
    [subscriptions |-> subs, invoices |-> invs, audits |-> audits,
     notifications |-> notes, invalidations |-> invals, result |-> result]

\* Subscription(...) built from the webhook's subscription sub-payload;
\* an unknown plan_key or status and a seat_quantity below 1 raise ValueError
_subscription_from_payload(payload) ==
    LET status == IF payload.status = NULL THEN "active" ELSE payload.status
    IN  IF \/ payload.plan_key \notin PlanKey
           \/ status \notin SubscriptionStatus
           \/ payload.seat_quantity < 1
        THEN [error |-> "ValueError"]
        ELSE [error |-> NULL,
              subscription |->
                [subscription_id |-> payload.subscription_id,
                 provider_id |-> payload.subscription_id,
                 customer_type |-> payload.customer_type,
                 customer_id |-> payload.customer_id,
                 plan_key |-> payload.plan_key,
                 status |-> status,
                 seat_quantity |-> payload.seat_quantity,
                 grace_period_expires_at |-> payload.grace_period_expires_at]]

\* str(payload.get("subscription_id")): an absent id becomes the text "None"
_invoice_from_payload(payload) ==
    [invoice_id |-> payload.invoice_id,
     subscription_id |->
        IF payload.subscription_id = NULL THEN "None" ELSE payload.subscription_id,
     status |-> payload.status]

_handle_subscription_event(event, subs, invs) ==
    LET payload == event.payload.subscription
        parsed == _subscription_from_payload(payload)
    IN  IF ~payload.present THEN Effect(subs, invs, <<>>, <<>>, <<>>, "ValueError")
        ELSE IF parsed.error # NULL
        THEN Effect(subs, invs, <<>>, <<>>, <<>>, parsed.error)
        ELSE LET persisted == parsed.subscription
                 audit_type ==
                    IF event.event_type = "subscription.canceled"
                    THEN "subscription_canceled"
                    ELSE IF persisted.status = "active"
                    THEN "subscription_activated"
                    ELSE "subscription_updated"
             IN  Effect(upsert_subscription(subs, persisted), invs,
                        <<AuditEvent(audit_type, persisted, NULL)>>, <<>>,
                        _invalidate_entitlements(persisted), "ok")

\* a deadline that grants no grace
GraceDeadlineNow(t) == t

\* self._now() + timedelta(days=self.grace_period_days)
GraceDeadline(t) == t + grace_period_days * SecondsPerDay

\* a handler that notifies the customer before it looks the subscription up
_handle_payment_failed_notifying(event, subs, invs, t) ==
    LET payload == event.payload.invoice
        invoice == _invoice_from_payload(payload)
        known == invoice.subscription_id \in DOMAIN subs
        subscription ==
            IF known THEN subs[invoice.subscription_id]
            ELSE [subscription_id |-> invoice.subscription_id,
                  customer_id |-> NULL, seat_quantity |-> 0]
        updated == update_subscription_status(
                       subs, invoice.subscription_id, "past_due",
                       GraceDeadline(t))
        note == Notification("payment_failure", subscription,
                             invoice.invoice_id, GraceDeadline(t), 0)
    IN  IF ~payload.present THEN Effect(subs, invs, <<>>, <<>>, <<>>, "ValueError")
        ELSE IF ~known
        THEN Effect(subs, record_invoice(invs, invoice), <<>>, <<note>>, <<>>,
                    "LookupError")
        ELSE Effect(updated, record_invoice(invs, invoice),
                    <<AuditEvent("payment_failed", subscription,
                                 invoice.invoice_id)>>,
                    <<note>>, _invalidate_entitlements(subscription), "ok")

_handle_payment_failed(event, subs, invs, t) ==
    LET payload == event.payload.invoice
        invoice == _invoice_from_payload(payload)
        recorded == record_invoice(invs, invoice)
        grace_period_expires_at == GraceDeadline(t)
        updated == update_subscription_status(
                       subs, invoice.subscription_id, "past_due",
                       grace_period_expires_at)
    IN  IF ~payload.present THEN Effect(subs, invs, <<>>, <<>>, <<>>, "ValueError")
        ELSE IF invoice.subscription_id \notin DOMAIN subs
        THEN Effect(subs, recorded, <<>>, <<>>, <<>>, "LookupError")
        ELSE LET subscription == updated[invoice.subscription_id]
             IN  Effect(updated, recorded,
                        <<AuditEvent("payment_failed", subscription,
                                     invoice.invoice_id)>>,
                        <<Notification("payment_failure", subscription,
                                       invoice.invoice_id,
                                       grace_period_expires_at, 0)>>,
                        _invalidate_entitlements(subscription), "ok")

_handle_payment_succeeded(event, subs, invs) ==
    LET payload == event.payload.invoice
        invoice == _invoice_from_payload(payload)
        recorded == record_invoice(invs, invoice)
        updated == update_subscription_status(
                       subs, invoice.subscription_id, "active", NoTime)
    IN  IF ~payload.present THEN Effect(subs, invs, <<>>, <<>>, <<>>, "ValueError")
        ELSE IF invoice.subscription_id \notin DOMAIN subs
        THEN Effect(subs, recorded, <<>>, <<>>, <<>>, "LookupError")
        ELSE LET subscription == updated[invoice.subscription_id]
             IN  Effect(updated, recorded,
                        <<AuditEvent("payment_recovered", subscription,
                                     invoice.invoice_id)>>,
                        <<>>, _invalidate_entitlements(subscription), "ok")

\* handle_webhook after the idempotency gate: dispatch on the event type
Dispatch(event, subs, invs, t) ==
    IF event.event_type \in SubscriptionEventTypes
    THEN _handle_subscription_event(event, subs, invs)
    ELSE IF event.event_type = "invoice.payment_failed"
    THEN _handle_payment_failed(event, subs, invs, t)
    ELSE IF event.event_type = "invoice.payment_succeeded"
    THEN _handle_payment_succeeded(event, subs, invs)
    ELSE Effect(subs, invs, <<>>, <<>>, <<>>, "ok")


\* a provider that acknowledges the call and keeps the old seat quantity
update_subscription_seats_ignored(subscription, seat_quantity) == subscription

\* PaymentProvider.update_subscription_seats: the provider's copy of the
\* subscription with the new seat quantity
update_subscription_seats(subscription, seat_quantity) ==
    [subscription EXCEPT !.seat_quantity = seat_quantity]

\* SeatReconciliationResult
Reconciliation(subscription, member_count, outcome) ==
    [subscription_id |-> subscription.subscription_id,
     member_count |-> member_count,
     seat_quantity |-> subscription.seat_quantity, outcome |-> outcome]

\* reconcile_seats, member_count > seat_quantity, the provider call returned:
\* the provider's subscription is persisted and its caches are invalidated
ProviderSucceeded(subs, subscription, member_count) ==
    LET persisted == update_subscription_seats(subscription, member_count)
    IN  [subscriptions |-> upsert_subscription(subs, persisted),
         provider_calls |-> <<member_count>>,
         invalidations |-> _invalidate_entitlements(persisted),
         notifications |-> <<>>,
         recorded |-> <<Reconciliation(persisted, member_count, "updated")>>]

\* a failure path that persists the requested seats all the same
ProviderFailedButPersisted(subs, subscription, member_count) ==
    [subscriptions |->
        upsert_subscription(
            subs, [subscription EXCEPT !.seat_quantity = member_count]),
     provider_calls |-> <<member_count>>, invalidations |-> <<>>,
     notifications |->
        <<Notification("seat_overage", subscription, NULL, NoTime,
                       member_count)>>,
     recorded |->
        <<Reconciliation(subscription, member_count,
                         "overage_requires_action")>>]

\* reconcile_seats, member_count > seat_quantity, the provider call raised
ProviderFailed(subs, subscription, member_count) ==
    [subscriptions |-> subs, provider_calls |-> <<member_count>>,
     invalidations |-> <<>>,
     notifications |->
        <<Notification("seat_overage", subscription, NULL, NoTime,
                       member_count)>>,
     recorded |->
        <<Reconciliation(subscription, member_count,
                         "overage_requires_action")>>]

\* a no-action branch that shrinks the persisted seats to the member count
NoActionShrinking(subs, subscription, member_count, outcome) ==
    [subscriptions |->
        upsert_subscription(
            subs,
            [subscription EXCEPT
                !.seat_quantity = IF member_count < 1 THEN 1 ELSE member_count]),
     provider_calls |-> <<>>, invalidations |-> <<>>, notifications |-> <<>>,
     recorded |-> <<Reconciliation(subscription, member_count, outcome)>>]

\* reconcile_seats, member_count <= seat_quantity: the result is recorded and
\* nothing else is done
NoAction(subs, subscription, member_count, outcome) ==
    [subscriptions |-> subs, provider_calls |-> <<>>, invalidations |-> <<>>,
     notifications |-> <<>>,
     recorded |-> <<Reconciliation(subscription, member_count, outcome)>>]

\* a branching that shrinks: fewer members than seats goes to the provider
SeatOutcomeShrinking(subscription, member_count, provider_ok) ==
    IF member_count = subscription.seat_quantity THEN "in_sync"
    ELSE IF provider_ok THEN "updated" ELSE "overage_requires_action"

\* the branch reconcile_seats takes for a member count
SeatOutcome(subscription, member_count, provider_ok) ==
    IF member_count = subscription.seat_quantity THEN "in_sync"
    ELSE IF member_count > subscription.seat_quantity
    THEN IF provider_ok THEN "updated" ELSE "overage_requires_action"
    ELSE "under_utilized"

\* reconcile_seats for a subscription that exists and member_count >= 0:
\* the new store, the calls made and the result recorded and returned
ReconcileExisting(subs, subscription, member_count, provider_ok) ==
    LET outcome == SeatOutcome(subscription, member_count, provider_ok)
    IN  IF outcome = "updated"
        THEN ProviderSucceeded(subs, subscription, member_count)
        ELSE IF outcome = "overage_requires_action"
        THEN ProviderFailed(subs, subscription, member_count)
        ELSE NoAction(subs, subscription, member_count, outcome)

\* ------------------------------------------------ InMemoryEntitlementCache
\* _CacheEntry.is_expired
\* an entry that is still live at the instant it expires
is_expired_after(entry, t) == t > entry.expires_at

\* _CacheEntry.is_expired
is_expired(entry, t) == t >= entry.expires_at

\* a cache that never answers
CacheValueNone(cache, key, t) == {}

\* get: the value under key, none when absent or expired
CacheValue(cache, key, t) ==
    IF key \in DOMAIN cache /\ ~is_expired(cache[key], t)
    THEN {cache[key].value} ELSE {}

\* get: an expired entry is popped by the read
CacheAfterGet(cache, key, t) ==
    IF key \in DOMAIN cache /\ is_expired(cache[key], t)
    THEN [k \in DOMAIN cache \ {key} |-> cache[k]]
    ELSE cache

\* a set that stores whatever the expiry
CacheSetAlways(cache, key, value, expires_at, tags, t) ==
    Put(cache, key,
        [value |-> value, expires_at |-> expires_at, tags |-> tags])

\* set: nothing is stored when expires_at has passed
CacheSet(cache, key, value, expires_at, tags, t) ==
    IF expires_at <= t THEN cache
    ELSE Put(cache, key,
             [value |-> value, expires_at |-> expires_at, tags |-> tags])

\* an invalidate that drops the entries holding every tag of tag_set
invalidate_containing(cache, tag_set) ==
    [k \in {x \in DOMAIN cache : ~(tag_set \subseteq cache[x].tags)} |-> cache[k]]

\* invalidate: drop every entry whose tags meet tag_set
invalidate(cache, tag_set) ==
    IF tag_set = {} THEN cache
    ELSE LET keys_to_delete ==
                 {k \in DOMAIN cache : cache[k].tags \cap tag_set # {}}
         IN  [k \in DOMAIN cache \ keys_to_delete |-> cache[k]]

\* EntitlementService.invalidate_user / _subscription / _organization, called
\* through the EntitlementInvalidator once per call of the sequence
RECURSIVE InvalidateAll(_, _)
InvalidateAll(cache, calls) ==
    IF calls = <<>> THEN cache
    ELSE InvalidateAll(invalidate(cache, {Head(calls)}), Tail(calls))

\* ------------------------------------------------------ entitlement models
FlagNames ==
    {"ads.disabled", "sync.enabled", "search.advanced", "storage.quota_gb",
     "org.admin"}

FeatureBundle(ads, sync, search, quota, admin) ==
    [ads_disabled |-> ads, sync_enabled |-> sync, search_advanced |-> search,
     storage_quota_gb |-> quota, org_admin |-> admin]

DefaultBundle == FeatureBundle(FALSE, FALSE, FALSE, 5, FALSE)

\* the override replacing the base outright
merge_replacing(base, override) == override

\* FeatureBundle.merge: the override's value wherever it is not the default
merge(base, override) ==
    [f \in DOMAIN base |->
        IF override[f] # DefaultBundle[f] THEN override[f] ELSE base[f]]

\* a bundle whose storage is the increment alone
with_storage_set(bundle, increment_gb) ==
    [bundle EXCEPT !.storage_quota_gb = increment_gb]

\* FeatureBundle.with_added_storage
with_added_storage(bundle, increment_gb) ==
    [bundle EXCEPT !.storage_quota_gb = @ + increment_gb]

to_flags(bundle) ==
    [f \in FlagNames |->
        CASE f = "ads.disabled" -> bundle.ads_disabled
          [] f = "sync.enabled" -> bundle.sync_enabled
          [] f = "search.advanced" -> bundle.search_advanced
          [] f = "storage.quota_gb" -> bundle.storage_quota_gb
          [] f = "org.admin" -> bundle.org_admin]

\* ----------------------------------------------------------------- catalog
FREE_BUNDLE == FeatureBundle(FALSE, FALSE, FALSE, 5, FALSE)
INDIVIDUAL_PRO_BUNDLE == FeatureBundle(TRUE, TRUE, TRUE, 100, FALSE)
TEAM_MEMBER_BUNDLE == FeatureBundle(TRUE, TRUE, TRUE, 100, FALSE)
TEAM_ADMIN_OVERRIDE == FeatureBundle(FALSE, FALSE, FALSE, 5, TRUE)

\* admin_override is a set: empty when the plan defines none
PLAN_CATALOG ==
    [k \in PlanKey |->
        CASE k = "free" ->
               [key |-> k, member_bundle |-> FREE_BUNDLE,
                admin_override |-> {}, supports_add_ons |-> {}]
          [] k = "individual_pro" ->
               [key |-> k, member_bundle |-> INDIVIDUAL_PRO_BUNDLE,
                admin_override |-> {},
                supports_add_ons |-> {"storage_100_gb"}]
          [] k = "team" ->
               [key |-> k, member_bundle |-> TEAM_MEMBER_BUNDLE,
                admin_override |-> {TEAM_ADMIN_OVERRIDE},
                supports_add_ons |-> {"storage_100_gb"}]]

ADD_ON_CATALOG ==
    [a \in {"storage_100_gb"} |-> [storage_increment_gb |-> 100]]

get_plan_definition(plan_key) == PLAN_CATALOG[plan_key]

\* the admin override applied whatever the role
bundle_for_any_role(plan_definition, role) ==
    IF plan_definition.admin_override # {}
    THEN merge(plan_definition.member_bundle,
               CHOOSE o \in plan_definition.admin_override : TRUE)
    ELSE plan_definition.member_bundle

\* PlanDefinition.bundle_for_role
bundle_for_role(plan_definition, role) ==
    IF role \in {"admin", "owner"} /\ plan_definition.admin_override # {}
    THEN merge(plan_definition.member_bundle,
               CHOOSE o \in plan_definition.admin_override : TRUE)
    ELSE plan_definition.member_bundle

\* --------------------------------------------------------- EntitlementSubject
Subject(user_id, organization_id) ==
    [user_id |-> user_id, organization_id |-> organization_id]

\* "user:<id>|org:<id or self>|sub:<id or none>"
cache_key(subject, subscription_id) ==
    << "user", subject.user_id,
       "org", IF subject.organization_id = NULL
              THEN "self" ELSE subject.organization_id,
       "sub", IF subscription_id = NULL THEN "none" ELSE subscription_id >>

\* a tag set that leaves the subscription out
tags_without_subscription(subject, subscription_id) ==
    {Tag("user", subject.user_id)}
    \cup (IF subject.organization_id # NULL
          THEN {Tag("organization", subject.organization_id)} ELSE {})

tags(subject, subscription_id) ==
    {Tag("user", subject.user_id)}
    \cup (IF subject.organization_id # NULL
          THEN {Tag("organization", subject.organization_id)} ELSE {})
    \cup (IF subscription_id # NULL
          THEN {Tag("subscription", subscription_id)} ELSE {})

\* AddOnGrant: the only AddOnType is storage_100_gb, quantity is >= 1
AddOnGrant(quantity) == [add_on_type |-> "storage_100_gb", quantity |-> quantity]

\* -------------------------------------------------------- EntitlementService
\* SubscriptionRepository.get_subscription: the normalized record of a
\* persisted subscription with its add-on grants
get_subscription(subs, grants, subscription_id) ==
    IF subscription_id \in DOMAIN subs
    THEN {[id |-> subscription_id,
           plan_key |-> subs[subscription_id].plan_key,
           status |-> subs[subscription_id].status,
           add_ons |-> grants[subscription_id]]}
    ELSE {}

\* a subscription that counts as active through its grace period
is_active_or_past_due(subscription) ==
    subscription.status \in {"active", "past_due"}

\* SubscriptionRecord.is_active
is_active(subscription) == subscription.status = "active"

\* a membership repository that answers member for everyone
get_membership_anyone(members, user_id, organization_id) == {"member"}

\* MembershipRepository.get_membership: the role of the membership, if any
get_membership(members, user_id, organization_id) ==
    Lookup(members, <<user_id, organization_id>>)

_resolve_subscription(subs, grants, subscription_id) ==
    IF subscription_id = NULL THEN {}
    ELSE {r \in get_subscription(subs, grants, subscription_id) : is_active(r)}

RECURSIVE StorageIncrement(_, _)
StorageIncrement(supported_types, grants) ==
    IF grants = <<>> THEN 0
    ELSE (IF Head(grants).add_on_type \in supported_types
          THEN ADD_ON_CATALOG[Head(grants).add_on_type].storage_increment_gb
               * Head(grants).quantity
          ELSE 0)
         + StorageIncrement(supported_types, Tail(grants))

_apply_add_ons(bundle, supported_add_ons, grants) ==
    IF supported_add_ons = {} THEN bundle
    ELSE LET total_storage_increment ==
                 StorageIncrement(supported_add_ons, grants)
         IN  IF total_storage_increment # 0
             THEN with_added_storage(bundle, total_storage_increment)
             ELSE bundle

\* subscription is the resolved record as a set (empty: none), role is NULL
\* for a subject without an organization
_compute_payload(subject, subscription, role) ==
    LET plan_key == IF subscription = {} THEN "free"
                    ELSE (CHOOSE r \in subscription : TRUE).plan_key
        grants == IF subscription = {} THEN <<>>
                  ELSE (CHOOSE r \in subscription : TRUE).add_ons
        plan_definition == get_plan_definition(plan_key)
        base == bundle_for_role(plan_definition, role)
        bundle == IF grants # <<>>
                  THEN _apply_add_ons(base, plan_definition.supports_add_ons,
                                      grants)
                  ELSE base
    IN  [plan |-> plan_definition.key, feature_flags |-> to_flags(bundle),
         subscription_id |->
            IF subscription = {} THEN NULL
            ELSE (CHOOSE r \in subscription : TRUE).id,
         organization_id |-> subject.organization_id, role |-> role]


\* ------------------------------------------------------------ feature gates
\* a flag that counts as enabled whenever it has an entry
is_present(flag, value) == TRUE

\* bool(value) of a flag's entry: storage.quota_gb holds a number, which is
\* falsy when 0; every other flag holds a boolean
is_enabled(flag, value) ==
    IF flag = "storage.quota_gb" THEN value # 0 ELSE value

\* bool(feature_flags.get(flag)): an absent flag gives None, which is falsy
FlagEnabled(feature_flags, flag) ==
    flag \in DOMAIN feature_flags /\ is_enabled(flag, feature_flags[flag])

\* FeatureGateError.payload: error and message, updated with the detail
FeatureGateError(code, detail) ==
    [result |-> "FeatureGateError", code |-> code,
     payload |-> detail @@ ("error" :> code)]

\* require_entitlement: what the call raises, or ok
RequireEntitlement(feature_flags, flag, error_code) ==
    IF ~FlagEnabled(feature_flags, flag)
    THEN FeatureGateError(error_code, ("missing_entitlement" :> flag))
    ELSE [result |-> "ok", code |-> NULL, payload |-> << >>]

\* usage plus the pending upload, negative or not
ProjectedUsageSigned(usage_gb, pending_upload_gb) == usage_gb + pending_upload_gb

\* usage_gb + max(pending_upload_gb, 0.0)
ProjectedUsage(usage_gb, pending_upload_gb) ==
    usage_gb + Max(pending_upload_gb, 0)

\* evaluate_storage_quota; amounts are whole GB and threshold is in
\* hundredths, so projected <= quota * threshold is compared times 100
EvaluateStorageQuota(usage_gb, quota_gb, pending_upload_gb, threshold) ==
    LET projected_usage == ProjectedUsage(usage_gb, pending_upload_gb)
    IN  [quota_gb |-> quota_gb, current_usage_gb |-> usage_gb,
         pending_upload_gb |-> Max(pending_upload_gb, 0),
         projected_usage_gb |-> projected_usage, threshold |-> threshold,
         should_warn |-> projected_usage >= quota_gb,
         allowed |-> projected_usage * 100 <= quota_gb * threshold]

\* ------------------------------------------------------------------ inputs
GraceInputs == {NoTime, grace_period_days * SecondsPerDay}

MissingSubscription ==
    [present |-> FALSE, subscription_id |-> NULL, customer_type |-> NULL,
     customer_id |-> NULL, plan_key |-> NULL, status |-> NULL,
     seat_quantity |-> 0, grace_period_expires_at |-> NoTime]

SubscriptionPayload(s, c, p, st, q, g) ==
    [present |-> TRUE, subscription_id |-> s, customer_type |-> c.type,
     customer_id |-> c.id, plan_key |-> p, status |-> st,
     seat_quantity |-> q, grace_period_expires_at |-> g]

\* well-formed sub-payloads, and one each without a status, with an unknown
\* plan_key, with no seats, and no sub-payload at all
SubscriptionPayloads ==
    {SubscriptionPayload(s, c, c.plan_key, st, q, g) :
        s \in ProviderSubIds, c \in Customers, st \in SubscriptionStatus,
        q \in 1..MaxSeats, g \in GraceInputs}
    \cup
    {SubscriptionPayload(s, c, c.plan_key, NULL, 1, NoTime) :
        s \in ProviderSubIds, c \in {x \in Customers : x.type = "user"}}
    \cup
    {SubscriptionPayload(s, c, "bogus", "active", 1, NoTime) :
        s \in ProviderSubIds, c \in {x \in Customers : x.type = "user"}}
    \cup
    {SubscriptionPayload(s, c, c.plan_key, "active", 0, NoTime) :
        s \in ProviderSubIds, c \in {x \in Customers : x.type = "user"}}
    \cup {MissingSubscription}

MissingInvoice ==
    [present |-> FALSE, invoice_id |-> NULL, subscription_id |-> NULL,
     status |-> NULL]

InvoicePayloads ==
    {MissingInvoice} \cup
    {[present |-> TRUE, invoice_id |-> i, subscription_id |-> s,
      status |-> "open"] : i \in InvoiceIds, s \in ProviderSubIds \cup {NULL}}

\* the deliveries of the provider: subscription events carry a subscription
\* sub-payload (or none), invoice events an invoice sub-payload (or none)
WebhookEvents ==
    {[event_id |-> e, event_type |-> t,
      payload |-> [subscription |-> sp, invoice |-> MissingInvoice]] :
        e \in EventIds, t \in SubscriptionEventTypes,
        sp \in SubscriptionPayloads}
    \cup
    {[event_id |-> e, event_type |-> t,
      payload |-> [subscription |-> MissingSubscription, invoice |-> ip]] :
        e \in EventIds,
        t \in {"invoice.payment_failed", "invoice.payment_succeeded"},
        ip \in InvoicePayloads}

\* the subscription a delivery is about, as its sub-payload names it
PayloadSubscriptionId(event) ==
    IF event.event_type \in SubscriptionEventTypes
    THEN event.payload.subscription.subscription_id
    ELSE event.payload.invoice.subscription_id

\* PaymentProvider.create_checkout_session: the session the provider
\* answers with; its metadata is the metadata it was passed, to which the
\* provider may add the subscription it opened
ProviderSession(session_id, subscription_id, t) ==
    [id |-> session_id, url |-> <<"checkout", session_id>>,
     expires_at |-> t + CheckoutSessionSeconds,
     extra_metadata |-> IF subscription_id = NULL THEN << >>
                        ELSE ("subscription_id" :> subscription_id)]

\* ----------------------------------------------------------------- actions
Init ==
    /\ now = 0
    /\ subscriptions = << >>
    /\ invoices = << >>
    /\ webhook_events = {}
    /\ purchase_intents = << >>
    /\ event_audits = [e \in EventIds |-> 0]
    /\ add_ons = [s \in SubIds |-> <<>>]
    /\ memberships = << >>
    /\ entries = << >>
    /\ in_flight = << >>
    /\ org_memberships = << >>
    /\ invitations = << >>
    /\ last = NoCall

AdvanceClock ==
    /\ now < MaxClockAdvances * ClockStep
    /\ now' = now + ClockStep
    /\ last' = [op |-> "clock"] @@ NoCall
    /\ UNCHANGED <<in_flight, subscriptions, invoices, webhook_events,
                   purchase_intents, event_audits, add_ons, memberships,
                   entries, org_memberships, invitations>>

handle_webhook(event) ==
    LET stored == record_webhook_event(webhook_events, event.event_id)
        eff == IF stored
               THEN Dispatch(event, subscriptions, invoices, now)
               ELSE Effect(subscriptions, invoices, <<>>, <<>>, <<>>, "ok")
    IN  /\ webhook_events' = webhook_events \cup {event.event_id}
        /\ subscriptions' = eff.subscriptions
        /\ invoices' = eff.invoices
        /\ event_audits' =
              [event_audits EXCEPT ![event.event_id] = @ + Len(eff.audits)]
        /\ last' = [op |-> "handle_webhook", event_id |-> event.event_id,
                    event_type |-> event.event_type,
                    subscription_id |-> PayloadSubscriptionId(event),
                    invoice_id |-> event.payload.invoice.invoice_id,
                    duplicate |-> ~stored, result |-> eff.result,
                    audits |-> eff.audits, notifications |-> eff.notifications,
                    invalidations |-> eff.invalidations] @@ NoCall
        /\ entries' = InvalidateAll(entries, eff.invalidations)
        /\ UNCHANGED <<in_flight, now, purchase_intents, add_ons, memberships,
                       org_memberships, invitations>>

reconcile_seats(subscription_id, member_count, provider_ok) ==
    LET found == Lookup(subscriptions, subscription_id)
    IN  /\ IF found = {}
           THEN /\ last' = [op |-> "reconcile_seats",
                            subscription_id |-> subscription_id,
                            member_count |-> member_count,
                            result |-> "LookupError"] @@ NoCall
                /\ UNCHANGED <<subscriptions, entries>>
           ELSE IF member_count < 0
           THEN /\ last' = [op |-> "reconcile_seats",
                            subscription_id |-> subscription_id,
                            member_count |-> member_count,
                            result |-> "ValueError"] @@ NoCall
                /\ UNCHANGED <<subscriptions, entries>>
           ELSE LET subscription == CHOOSE x \in found : TRUE
                    r == ReconcileExisting(subscriptions, subscription,
                                           member_count, provider_ok)
                IN  /\ subscriptions' = r.subscriptions
                    /\ entries' = InvalidateAll(entries, r.invalidations)
                    /\ last' = [op |-> "reconcile_seats",
                                subscription_id |-> subscription_id,
                                member_count |-> member_count,
                                result |-> "ok",
                                provider_raises |-> ~provider_ok,
                                outcome |-> r.recorded[1].outcome,
                                provider_calls |-> r.provider_calls,
                                invalidations |-> r.invalidations,
                                notifications |-> r.notifications,
                                recorded |-> r.recorded] @@ NoCall
        /\ UNCHANGED <<in_flight, now, invoices, webhook_events,
                       purchase_intents, event_audits, add_ons, memberships,
                       org_memberships, invitations>>

process_grace_period_expiration(subscription_id) ==
    LET found == Lookup(subscriptions, subscription_id)
        updated == update_subscription_status(
                       subscriptions, subscription_id, "canceled", NoTime)
    IN  /\ IF found = {}
           THEN /\ last' = [op |-> "process_grace_period_expiration",
                            subscription_id |-> subscription_id,
                            result |-> "LookupError"] @@ NoCall
                /\ UNCHANGED <<subscriptions, entries>>
           ELSE /\ subscriptions' = updated
                /\ entries' = InvalidateAll(
                                  entries,
                                  _invalidate_entitlements(
                                      updated[subscription_id]))
                /\ last' = [op |-> "process_grace_period_expiration",
                            subscription_id |-> subscription_id,
                            result |-> "ok",
                            notifications |->
                               <<Notification("grace_period_expired",
                                              updated[subscription_id], NULL,
                                              NoTime, 0)>>,
                            audits |->
                               <<AuditEvent("grace_period_expired",
                                            updated[subscription_id], NULL)>>,
                            invalidations |->
                               _invalidate_entitlements(updated[subscription_id])]
                           @@ NoCall
        /\ UNCHANGED <<in_flight, now, invoices, webhook_events,
                       purchase_intents, event_audits, add_ons, memberships,
                       org_memberships, invitations>>

create_checkout_session(customer, plan_key, seat_quantity, metadata, provider_session) ==
    /\ IF seat_quantity < 1
       THEN /\ last' = [op |-> "create_checkout_session",
                        result |-> "ValueError"] @@ NoCall
            /\ UNCHANGED purchase_intents
       ELSE \E intent_id \in IntentIds \ DOMAIN purchase_intents :
               LET intent ==
                       [intent_id |-> intent_id,
                        customer_type |-> customer.type,
                        customer_id |-> customer.id, plan_key |-> plan_key,
                        seat_quantity |-> seat_quantity,
                        status |-> "pending",
                        provider_session_id |-> NULL,
                        provider_session_url |-> NULL,
                        expires_at |-> NoTime,
                        metadata |-> metadata]
                   stored == save_purchase_intent(purchase_intents, intent)
                   \* {"purchase_intent_id": intent_id, **metadata}
                   passed == metadata @@ ("purchase_intent_id" :> intent_id)
                   call == [op |-> "create_checkout_session",
                            intent_id |-> intent_id,
                            session |-> provider_session,
                            provider_calls |->
                               <<[op |-> "create_checkout_session",
                                  metadata |-> passed]>>]
               IN  IF provider_session = {}
                   THEN /\ purchase_intents' = stored
                        /\ last' = call @@ [result |-> "ProviderError"]
                                        @@ NoCall
                   ELSE LET session == CHOOSE x \in provider_session : TRUE
                            updated_intent ==
                                [intent EXCEPT
                                    !.provider_session_id = session.id,
                                    !.provider_session_url = session.url,
                                    !.expires_at = session.expires_at,
                                    !.metadata = session.extra_metadata
                                                    @@ passed]
                        IN  /\ purchase_intents' =
                                  save_purchase_intent(stored, updated_intent)
                            /\ last' = call @@ [returned |-> {updated_intent}]
                                            @@ NoCall
    /\ UNCHANGED <<in_flight, now, subscriptions, invoices, webhook_events,
                   event_audits, add_ons, memberships, entries,
                   org_memberships, invitations>>

mark_intent_completed(provider_session_id) ==
    LET intent == get_purchase_intent_by_session(purchase_intents,
                                                 provider_session_id)
    IN  /\ IF intent = {}
           THEN /\ last' = [op |-> "mark_intent_completed",
                            session_id |-> provider_session_id,
                            result |-> "LookupError"] @@ NoCall
                /\ UNCHANGED <<purchase_intents, entries>>
           ELSE LET chosen == CHOOSE x \in intent : TRUE
                    subscription_id ==
                        MetadataGet(chosen.metadata, "subscription_id")
                    found == Lookup(subscriptions, subscription_id)
                IN  /\ purchase_intents' =
                          mark_purchase_intent_completed(purchase_intents,
                                                         chosen.intent_id)
                    /\ entries' =
                          IF found = {} THEN entries
                          ELSE InvalidateAll(
                                   entries,
                                   _invalidate_entitlements(
                                       CHOOSE x \in found : TRUE))
                    /\ last' =
                          IF subscription_id = NULL
                          THEN [op |-> "mark_intent_completed",
                                session_id |-> provider_session_id,
                                result |-> "KeyError"] @@ NoCall
                          ELSE IF found = {}
                          THEN [op |-> "mark_intent_completed",
                                session_id |-> provider_session_id,
                                subscription_id |-> subscription_id,
                                result |-> "LookupError"] @@ NoCall
                          ELSE LET subscription == CHOOSE x \in found : TRUE
                               IN  [op |-> "mark_intent_completed",
                                    session_id |-> provider_session_id,
                                    subscription_id |-> subscription_id,
                                    result |-> "ok",
                                    returned |-> {subscription},
                                    invalidations |->
                                       _invalidate_entitlements(subscription),
                                    audits |->
                                       <<AuditEvent("subscription_activated",
                                                    subscription, NULL)>>]
                                   @@ NoCall
        /\ UNCHANGED <<in_flight, now, subscriptions, invoices,
                       webhook_events, event_audits, add_ons, memberships,
                       org_memberships, invitations>>

\* a purchase intent expires or is canceled outside the service
ExternalIntentStatus(intent_id, status) ==
    /\ intent_id \in DOMAIN purchase_intents
    /\ purchase_intents[intent_id].status = "pending"
    /\ purchase_intents' =
          [purchase_intents EXCEPT ![intent_id].status = status]
    /\ last' = [op |-> "intent_status"] @@ NoCall
    /\ UNCHANGED <<in_flight, now, subscriptions, invoices, webhook_events,
                   event_audits, add_ons, memberships, entries,
                   org_memberships, invitations>>

\* ---- feature gates
require_entitlement(feature_flags, flag, error_code) ==
    /\ last' = [op |-> "require_entitlement", feature_flags |-> feature_flags,
                flag |-> flag, error_code |-> error_code,
                raised |-> RequireEntitlement(feature_flags, flag, error_code)]
                @@ NoCall
    /\ UNCHANGED <<now, subscriptions, invoices, webhook_events,
                   purchase_intents, event_audits, add_ons, memberships,
                   entries, in_flight, org_memberships, invitations>>

\* EntitlementContext.has
has(feature_flags, flag) ==
    /\ last' = [op |-> "has", feature_flags |-> feature_flags, flag |-> flag,
                value |-> FlagEnabled(feature_flags, flag)] @@ NoCall
    /\ UNCHANGED <<now, subscriptions, invoices, webhook_events,
                   purchase_intents, event_audits, add_ons, memberships,
                   entries, in_flight, org_memberships, invitations>>

\* EntitlementContext.require
require(feature_flags, flag, error_code) ==
    /\ last' = [op |-> "require", feature_flags |-> feature_flags,
                flag |-> flag, error_code |-> error_code,
                raised |-> RequireEntitlement(feature_flags, flag, error_code)]
                @@ NoCall
    /\ UNCHANGED <<now, subscriptions, invoices, webhook_events,
                   purchase_intents, event_audits, add_ons, memberships,
                   entries, in_flight, org_memberships, invitations>>

evaluate_storage_quota(usage_gb, quota_gb, pending_upload_gb, threshold) ==
    /\ last' = [op |-> "evaluate_storage_quota", usage_gb |-> usage_gb,
                pending_upload_gb |-> pending_upload_gb,
                evaluation |->
                   EvaluateStorageQuota(usage_gb, quota_gb, pending_upload_gb,
                                        threshold)] @@ NoCall
    /\ UNCHANGED <<now, subscriptions, invoices, webhook_events,
                   purchase_intents, event_audits, add_ons, memberships,
                   entries, in_flight, org_memberships, invitations>>

assert_quota(usage_gb, quota_gb, pending_upload_gb, threshold, error_code) ==
    LET evaluation == EvaluateStorageQuota(usage_gb, quota_gb,
                                           pending_upload_gb, threshold)
    IN  /\ last' = [op |-> "assert_quota", usage_gb |-> usage_gb,
                    pending_upload_gb |-> pending_upload_gb,
                    error_code |-> error_code, evaluation |-> evaluation,
                    raised |->
                       IF ~evaluation.allowed
                       THEN FeatureGateError(
                                error_code,
                                [quota_gb |-> quota_gb,
                                 usage_gb |-> evaluation.projected_usage_gb,
                                 pending_upload_gb |-> Max(pending_upload_gb, 0),
                                 threshold |-> threshold])
                       ELSE [result |-> "ok", code |-> NULL,
                             payload |-> << >>]] @@ NoCall
        /\ UNCHANGED <<now, subscriptions, invoices, webhook_events,
                       purchase_intents, event_audits, add_ons, memberships,
                       entries, in_flight, org_memberships, invitations>>

\* ---- EntitlementService and the repositories it reads
get_entitlements(subject, subscription_id) ==
    LET key == cache_key(subject, subscription_id)
        cached == CacheValue(entries, key, now)
        read == CacheAfterGet(entries, key, now)
        subscription ==
            _resolve_subscription(subscriptions, add_ons, subscription_id)
        membership ==
            get_membership(memberships, subject.user_id,
                           subject.organization_id)
        role == IF subject.organization_id = NULL THEN NULL
                ELSE CHOOSE r \in membership : TRUE
        payload == _compute_payload(subject, subscription, role)
        expires_at == now + Max(ttl_seconds, MinTtlSeconds)
        result == [payload |-> payload, expires_at |-> expires_at]
        call == [op |-> "get_entitlements", subject |-> {subject},
                 subscription_id |-> subscription_id]
    IN  /\ IF cached # {}
           THEN /\ entries' = read
                /\ last' = call @@ [returned |-> cached] @@ NoCall
           ELSE IF subject.organization_id # NULL /\ membership = {}
           THEN /\ entries' = read
                /\ last' = call @@ [result |-> "LookupError"] @@ NoCall
           ELSE /\ entries' = CacheSet(read, key, result, expires_at,
                                       tags(subject, subscription_id), now)
                /\ last' = call @@ [returned |-> {result}] @@ NoCall
        /\ UNCHANGED <<in_flight, now, subscriptions, invoices,
                       webhook_events, purchase_intents, event_audits,
                       add_ons, memberships, org_memberships, invitations>>

\* invalidate_user, invalidate_subscription, invalidate_organization
invalidate_tag(kind, id) ==
    /\ entries' = invalidate(entries, {Tag(kind, id)})
    /\ last' = [op |-> "invalidate", tag_set |-> {Tag(kind, id)}] @@ NoCall
    /\ UNCHANGED <<in_flight, now, subscriptions, invoices, webhook_events,
                   purchase_intents, event_audits, add_ons, memberships,
                   org_memberships, invitations>>

\* the provisioning of storage add-ons changes a subscription's grants
SetAddOns(subscription_id, quantity) ==
    LET grants == IF quantity > 0 THEN <<AddOnGrant(quantity)>> ELSE <<>>
    IN  /\ add_ons[subscription_id] # grants
        /\ add_ons' = [add_ons EXCEPT ![subscription_id] = grants]
        /\ last' = [op |-> "set_add_ons",
                    subscription_id |-> subscription_id] @@ NoCall
        /\ UNCHANGED <<in_flight, now, subscriptions, invoices,
                       webhook_events, purchase_intents, event_audits,
                       memberships, entries, org_memberships, invitations>>

\* one more grant is provisioned on a subscription
AddGrant(subscription_id, quantity) ==
    /\ Len(add_ons[subscription_id]) < MaxGrants
    /\ add_ons' = [add_ons EXCEPT ![subscription_id] =
                       Append(@, AddOnGrant(quantity))]
    /\ last' = [op |-> "add_grant",
                subscription_id |-> subscription_id] @@ NoCall
    /\ UNCHANGED <<in_flight, now, subscriptions, invoices, webhook_events,
                   purchase_intents, event_audits, memberships, entries,
                   org_memberships, invitations>>

\* the membership repository gains a membership or changes its role
AddMembership(user_id, organization_id, role) ==
    /\ Lookup(memberships, <<user_id, organization_id>>) # {role}
    /\ memberships' = Put(memberships, <<user_id, organization_id>>, role)
    /\ last' = [op |-> "add_membership"] @@ NoCall
    /\ UNCHANGED <<in_flight, now, subscriptions, invoices, webhook_events,
                   purchase_intents, event_audits, add_ons, entries,
                   org_memberships, invitations>>

\* ---- requests running concurrently: a call is split at the points where
\* another thread or worker can run between two of its collaborator calls
\* handle_webhook up to the idempotency gate: the store's atomic insert
begin_handle_webhook(call, event) ==
    /\ call \notin DOMAIN in_flight
    /\ webhook_events' = webhook_events \cup {event.event_id}
    /\ in_flight' = Put(in_flight, call,
                    [op |-> "handle_webhook", pc |-> "recorded",
                     event |-> event,
                     stored |-> record_webhook_event(webhook_events,
                                                     event.event_id),
                     result |-> NULL, audits |-> <<>>, notifications |-> <<>>,
                     invalidations |-> <<>>])
    /\ last' = [op |-> "handle_webhook.record",
                event_id |-> event.event_id] @@ NoCall
    /\ UNCHANGED <<now, subscriptions, invoices, purchase_intents,
                   event_audits, add_ons, memberships, entries,
                   org_memberships, invitations>>

\* handle_webhook after the gate: return, or dispatch to the handler
finish_handle_webhook(call) ==
    /\ call \in DOMAIN in_flight
    /\ in_flight[call].op = "handle_webhook"
    /\ in_flight[call].pc = "recorded"
    /\ LET event == in_flight[call].event
           eff == IF in_flight[call].stored
                  THEN Dispatch(event, subscriptions, invoices, now)
                  ELSE Effect(subscriptions, invoices, <<>>, <<>>, <<>>, "ok")
       IN  /\ subscriptions' = eff.subscriptions
           /\ invoices' = eff.invoices
           /\ event_audits' =
                 [event_audits EXCEPT ![event.event_id] = @ + Len(eff.audits)]
           /\ entries' = InvalidateAll(entries, eff.invalidations)
           /\ in_flight' = [in_flight EXCEPT
                           ![call].pc = "returned",
                           ![call].result = eff.result,
                           ![call].audits = eff.audits,
                           ![call].notifications = eff.notifications,
                           ![call].invalidations = eff.invalidations]
           /\ last' = [op |-> "handle_webhook.dispatch",
                       event_id |-> event.event_id,
                       duplicate |-> ~in_flight[call].stored,
                       result |-> eff.result] @@ NoCall
    /\ UNCHANGED <<now, webhook_events, purchase_intents, add_ons,
                   memberships, org_memberships, invitations>>

\* get_entitlements for a subject without an organization, up to the
\* computation: the cache is read and missed, the repositories are read
begin_get_entitlements(call, subject, subscription_id) ==
    LET key == cache_key(subject, subscription_id)
        subscription ==
            _resolve_subscription(subscriptions, add_ons, subscription_id)
        expires_at == now + Max(ttl_seconds, MinTtlSeconds)
    IN  /\ call \notin DOMAIN in_flight
        /\ subject.organization_id = NULL
        /\ CacheValue(entries, key, now) = {}
        /\ entries' = CacheAfterGet(entries, key, now)
        /\ in_flight' = Put(in_flight, call,
                        [op |-> "get_entitlements", pc |-> "computed",
                         subject |-> subject,
                         subscription_id |-> subscription_id,
                         result |->
                            [payload |->
                                _compute_payload(subject, subscription, NULL),
                             expires_at |-> expires_at]])
        /\ last' = [op |-> "get_entitlements.compute",
                    subject |-> {subject},
                    subscription_id |-> subscription_id] @@ NoCall
        /\ UNCHANGED <<now, subscriptions, invoices, webhook_events,
                       purchase_intents, event_audits, add_ons, memberships,
                       org_memberships, invitations>>

\* get_entitlements from the computation on: the result is cached and returned
finish_get_entitlements(call) ==
    /\ call \in DOMAIN in_flight
    /\ in_flight[call].op = "get_entitlements"
    /\ LET c == in_flight[call]
       IN  /\ entries' =
                 CacheSet(entries, cache_key(c.subject, c.subscription_id),
                          c.result, c.result.expires_at,
                          tags(c.subject, c.subscription_id), now)
           /\ last' = [op |-> "get_entitlements.store",
                       subject |-> {c.subject},
                       subscription_id |-> c.subscription_id,
                       returned |-> {c.result}] @@ NoCall
    /\ in_flight' = [k \in DOMAIN in_flight \ {call} |-> in_flight[k]]
    /\ UNCHANGED <<now, subscriptions, invoices, webhook_events,
                   purchase_intents, event_audits, add_ons, memberships,
                   org_memberships, invitations>>

\* ---- InMemoryEntitlementCache used directly
cache_set(key, value, expires_at, tag_set) ==
    /\ entries' = CacheSet(entries, key, value, expires_at, tag_set, now)
    /\ last' = [op |-> "cache.set", key |-> key, expires_at |-> expires_at,
                tag_set |-> tag_set] @@ NoCall
    /\ UNCHANGED <<in_flight, now, subscriptions, invoices, webhook_events,
                   purchase_intents, event_audits, add_ons, memberships,
                   org_memberships, invitations>>

cache_get(key) ==
    /\ entries' = CacheAfterGet(entries, key, now)
    /\ last' = [op |-> "cache.get", key |-> key,
                returned |-> CacheValue(entries, key, now),
                evicted |-> {entries[k] : k \in DOMAIN entries \ DOMAIN entries'}]
                @@ NoCall
    /\ UNCHANGED <<in_flight, now, subscriptions, invoices, webhook_events,
                   purchase_intents, event_audits, add_ons, memberships,
                   org_memberships, invitations>>

CacheInvalidate(tag_set) ==
    /\ entries' = invalidate(entries, tag_set)
    /\ last' = [op |-> "cache.invalidate", tag_set |-> tag_set] @@ NoCall
    /\ UNCHANGED <<in_flight, now, subscriptions, invoices, webhook_events,
                   purchase_intents, event_audits, add_ons, memberships,
                   org_memberships, invitations>>


\* ---------------------------------------------------------- specifications
\* the subscription lifecycle: every webhook, seat reconciliation and the
\* grace-period sweep
Next ==
    \/ \E event \in WebhookEvents : handle_webhook(event)
    \/ \E s \in SubIds, m \in (0 - 1)..(MaxSeats + 1), ok \in BOOLEAN :
          reconcile_seats(s, m, ok)
    \/ \E s \in SubIds : process_grace_period_expiration(s)

Spec == Init /\ [][Next]_vars

\* every BillingService operation, checkout included, on the webhooks whose
\* sub-payload is present and well formed
CheckoutWebhookEvents ==
    {e \in WebhookEvents :
        /\ e.event_type \in SubscriptionEventTypes =>
              /\ e.payload.subscription.present
              /\ e.payload.subscription.status # NULL
              /\ e.payload.subscription.plan_key \in PlanKey
              /\ e.payload.subscription.seat_quantity = 1
              /\ (e.payload.subscription.grace_period_expires_at # NoTime
                    <=> e.payload.subscription.status = "past_due")
        /\ e.event_type \notin SubscriptionEventTypes =>
              e.payload.invoice.subscription_id # NULL}

NextCheckout ==
    \/ \E event \in CheckoutWebhookEvents : handle_webhook(event)
    \/ \E s \in ProviderSubIds, m \in 1..(MaxSeats + 1), ok \in BOOLEAN :
          reconcile_seats(s, m, ok)
    \/ \E s \in ProviderSubIds : process_grace_period_expiration(s)
    \/ \E c \in {x \in Customers : x.type = "user"}, q \in 0..1,
          cs \in SessionIds, m \in ProviderSubIds \cup {NULL} :
          create_checkout_session(c, c.plan_key, q, << >>,
                                  {ProviderSession(cs, m, now)})
    \/ \E c \in SessionIds : mark_intent_completed(c)

SpecCheckout == Init /\ [][NextCheckout]_vars

\* entitlement resolution over the cache while the clock runs and the
\* subscription of user u1 is created, fails a payment and lapses
EntWebhookEvents ==
    {[event_id |-> "evt_1", event_type |-> "subscription.created",
      payload |->
        [subscription |->
            SubscriptionPayload("sub_1", c, c.plan_key, "active", 1, NoTime),
         invoice |-> MissingInvoice]] : c \in {x \in Customers : x.type = "user"}}
    \cup
    {[event_id |-> "evt_2", event_type |-> "invoice.payment_failed",
      payload |->
        [subscription |-> MissingSubscription,
         invoice |-> [present |-> TRUE, invoice_id |-> "in_1",
                      subscription_id |-> "sub_1", status |-> "open"]]]}

\* the requests served: user u1 with and without its subscription, and
\* user u2 asking for the same subscription
EntRequests ==
    {<<Subject("u1", NULL), NULL>>, <<Subject("u1", NULL), "sub_1">>,
     <<Subject("u2", NULL), "sub_1">>}

EntTags ==
    {Tag("user", "u1"), Tag("user", "u2"), Tag("subscription", "sub_1")}

NextEnt ==
    \/ AdvanceClock
    \/ \E event \in EntWebhookEvents : handle_webhook(event)
    \/ \E s \in ProviderSubIds : process_grace_period_expiration(s)
    \/ \E r \in EntRequests : get_entitlements(r[1], r[2])
    \/ \E t \in EntTags : invalidate_tag(t.kind, t.id)
    \/ \E s \in ProviderSubIds, q \in 0..MaxQuantity : SetAddOns(s, q)

SpecEnt == Init /\ [][NextEnt]_vars

\* the cache on its own: any value stored under any tags, read, invalidated
\* by any tag set, while the clock runs
CacheKeys ==
    {cache_key(Subject("u1", NULL), "sub_1"),
     cache_key(Subject("u2", NULL), "sub_1")}

CacheTags ==
    {Tag("user", "u1"), Tag("user", "u2"), Tag("subscription", "sub_1")}

NextCache ==
    \/ AdvanceClock
    \/ \E k \in CacheKeys, T \in SUBSET CacheTags, ttl \in {0, ttl_seconds} :
          cache_set(k, "result", now + ttl, T)
    \/ \E k \in CacheKeys : cache_get(k)
    \/ \E T \in SUBSET CacheTags : CacheInvalidate(T)

SpecCache == Init /\ [][NextCache]_vars

\* entitlements of the members of organization o1 while its team
\* subscription is created and memberships appear
OrgWebhookEvents ==
    {[event_id |-> "evt_1", event_type |-> "subscription.created",
      payload |->
        [subscription |->
            SubscriptionPayload("sub_1", c, c.plan_key, "active", 1, NoTime),
         invoice |-> MissingInvoice]] :
        c \in {x \in Customers : x.type = "organization"}}

OrgRequests ==
    {<<Subject("u1", "o1"), NULL>>, <<Subject("u1", "o1"), "sub_1">>,
     <<Subject("u2", "o1"), "sub_1">>}

NextOrg ==
    \/ AdvanceClock
    \/ \E event \in OrgWebhookEvents : handle_webhook(event)
    \/ \E s \in ProviderSubIds : process_grace_period_expiration(s)
    \/ \E r \in OrgRequests : get_entitlements(r[1], r[2])
    \/ \E role \in {"member", "admin"} : AddMembership("u1", "o1", role)
    \/ invalidate_tag("organization", "o1")

SpecOrg == Init /\ [][NextOrg]_vars

\* deliveries racing each other: the creation of subscription sub_1 and a
\* failed payment on it, each delivered by several concurrent calls
RaceWebhookEvents ==
    {e \in EntWebhookEvents : e.event_id \in EventIds}

NextWebhookRace ==
    \/ \E call \in CallIds, event \in RaceWebhookEvents :
          begin_handle_webhook(call, event)
    \/ \E call \in CallIds : finish_handle_webhook(call)

SpecWebhookRace == Init /\ [][NextWebhookRace]_vars

\* entitlement requests racing the subscription changes of the webhooks and
\* of the grace-period sweep, each of which ends with its invalidations
NextCacheRace ==
    \/ \E event \in EntWebhookEvents : handle_webhook(event)
    \/ \E s \in ProviderSubIds : process_grace_period_expiration(s)
    \/ \E r \in EntRequests : get_entitlements(r[1], r[2])
    \/ \E call \in {"c1"}, r \in EntRequests :
          begin_get_entitlements(call, r[1], r[2])
    \/ \E call \in {"c1"} : finish_get_entitlements(call)

SpecCacheRace == Init /\ [][NextCacheRace]_vars

\* the plans side by side: subscription sub_1 is bought on the free plan, on
\* individual_pro or by organization o1 on the team plan, user u1 joins o1 in
\* any role, and storage add-ons are granted one by one
PlanCustomers ==
    Customers \cup {[type |-> "user", id |-> "u1", plan_key |-> "free"]}

PlanWebhookEvents ==
    {[event_id |-> "evt_1", event_type |-> "subscription.created",
      payload |->
        [subscription |->
            SubscriptionPayload("sub_1", c, c.plan_key, "active", 1, NoTime),
         invoice |-> MissingInvoice]] : c \in PlanCustomers}

PlanRequests ==
    {<<Subject("u1", NULL), "sub_1">>, <<Subject("u1", "o1"), "sub_1">>}

\* the quantities of the grants provisioned
GrantQuantities == {1, 2}

NextPlans ==
    \/ \E event \in PlanWebhookEvents : handle_webhook(event)
    \/ \E r \in PlanRequests : get_entitlements(r[1], r[2])
    \/ \E role \in {"member", "admin", "owner"} :
          AddMembership("u1", "o1", role)
    \/ \E q \in GrantQuantities : AddGrant("sub_1", q)
    \/ invalidate_tag("user", "u1")

SpecPlans == Init /\ [][NextPlans]_vars

\* checkout: intents are opened with any caller metadata, the provider
\* answers or fails, the subscription arrives by webhook, the intent is
\* completed by session id, or expires or is canceled first
IntentWebhookEvents ==
    {[event_id |-> "evt_1", event_type |-> "subscription.created",
      payload |->
        [subscription |->
            SubscriptionPayload("sub_1", c, c.plan_key, "active", 1, NoTime),
         invoice |-> MissingInvoice]] : c \in Customers}

IntentMetadata ==
    {<< >>, ("source" :> "test"), ("purchase_intent_id" :> "pi_other")}

NextIntent ==
    \/ \E event \in IntentWebhookEvents : handle_webhook(event)
    \/ \E c \in Customers, q \in 0..1, metadata \in IntentMetadata,
          session \in {{}} \cup {{ProviderSession(cs, m, now)} :
                          cs \in SessionIds, m \in ProviderSubIds \cup {NULL}} :
          create_checkout_session(c, c.plan_key, q, metadata, session)
    \/ \E cs \in SessionIds : mark_intent_completed(cs)
    \/ \E i \in IntentIds, status \in {"expired", "canceled"} :
          ExternalIntentStatus(i, status)
    \/ get_entitlements(Subject("u1", NULL), "sub_1")

SpecIntent == Init /\ [][NextIntent]_vars

\* the expiry of cache entries: values stored with an expiry in the past, now
\* or ahead, and read while the clock runs
ExpiryKeys == CacheKeys

ExpiryOffsets == {0 - ClockStep, 0, ClockStep, ttl_seconds}

NextExpiry ==
    \/ AdvanceClock
    \/ \E k \in ExpiryKeys, offset \in ExpiryOffsets :
          cache_set(k, [stored_at |-> now], now + offset, {Tag("user", "u1")})
    \/ \E k \in ExpiryKeys : cache_get(k)

SpecExpiry == Init /\ [][NextExpiry]_vars

\* the gates on flags: the flags of a payload, some entries missing, some
\* falsy, asked for flags the payload has and for one it never has
GateBundles ==
    {FREE_BUNDLE, INDIVIDUAL_PRO_BUNDLE,
     merge(TEAM_MEMBER_BUNDLE, TEAM_ADMIN_OVERRIDE),
     FeatureBundle(FALSE, TRUE, FALSE, 0, FALSE)}

GateFlags ==
    {[f \in K |-> to_flags(b)[f]] :
        b \in GateBundles,
        K \in {FlagNames, FlagNames \ {"org.admin"}, {"storage.quota_gb"}, {}}}

GateFlagNames == FlagNames \cup {"bulk.export"}

GateErrorCodes == {"entitlement_required", "upgrade_required"}

NextGates ==
    \/ \E flags \in GateFlags, f \in GateFlagNames, code \in GateErrorCodes :
          require_entitlement(flags, f, code)
    \/ \E flags \in GateFlags, f \in GateFlagNames : has(flags, f)
    \/ \E flags \in GateFlags, f \in GateFlagNames, code \in GateErrorCodes :
          require(flags, f, code)

SpecGates == Init /\ [][NextGates]_vars

\* the storage gate: usage below, at and above the quota and the block
\* threshold, uploads pending or negative, thresholds below, at and above 1
QuotaUsages == {0 - 5, 0, 9, 10, 11, 12, 20, 22, 23}
QuotaPendings == {0 - 5, 0, 1, 5}
QuotaValues == {0, 10, 20}
QuotaThresholds == {90, 100, _DEFAULT_BLOCK_THRESHOLD, 150}

NextQuota ==
    \/ \E u \in QuotaUsages, q \in QuotaValues, p \in QuotaPendings,
          t \in QuotaThresholds : evaluate_storage_quota(u, q, p, t)
    \/ \E u \in QuotaUsages, q \in QuotaValues, p \in QuotaPendings,
          t \in QuotaThresholds : assert_quota(u, q, p, t, "storage_quota_exceeded")

SpecQuota == Init /\ [][NextQuota]_vars

\* FeatureBundle.merge on its own: any bundle merged with any override, and
\* the result merged with the same override again
BundleQuotas == {0, 5, 100}

FeatureBundles ==
    {FeatureBundle(ads, sync, search, quota, admin) :
        ads \in BOOLEAN, sync \in BOOLEAN, search \in BOOLEAN,
        quota \in BundleQuotas, admin \in BOOLEAN}

InitMerge ==
    /\ now = 0
    /\ subscriptions = << >>
    /\ invoices = << >>
    /\ webhook_events = {}
    /\ purchase_intents = << >>
    /\ event_audits = [e \in EventIds |-> 0]
    /\ add_ons = [s \in SubIds |-> <<>>]
    /\ memberships = << >>
    /\ entries = << >>
    /\ in_flight = << >>
    /\ org_memberships = << >>
    /\ invitations = << >>
    /\ \E base \in FeatureBundles, override \in FeatureBundles :
          last = [op |-> "bundles", base |-> base, override |-> override,
                  merged |-> base, merges |-> 0] @@ NoCall

\* merged = merged.merge(override)
merge_override ==
    /\ last.op \in {"bundles", "merge"}
    /\ last.merges < MaxMerges
    /\ last' = [last EXCEPT !.op = "merge",
                            !.merged = merge(@, last.override),
                            !.merges = @ + 1]
    /\ UNCHANGED <<now, subscriptions, invoices, webhook_events,
                   purchase_intents, event_audits, add_ons, memberships,
                   entries, in_flight, org_memberships, invitations>>

NextMerge == merge_override

SpecMerge == InitMerge /\ [][NextMerge]_vars

\* ------------------------------------------------------------------ claims
\* the persisted billing state and the cache are what they were before the step
BillingStateUnchanged ==
    /\ subscriptions' = subscriptions
    /\ invoices' = invoices
    /\ webhook_events' = webhook_events
    /\ purchase_intents' = purchase_intents
    /\ event_audits' = event_audits
    /\ entries' = entries

\* C1 (as amended): a handle_webhook call whose event_id is already recorded
\* changes no persisted subscription, invoice, audit entry or cache entry,
\* sends no notification, issues no invalidation and returns without error;
\* the audit log holds at most one entry per event_id, and exactly one once
\* the first delivery of the event has returned without error.
C1_DuplicateWebhookIsNoOp ==
    [][last'.op = "handle_webhook" =>
          IF last'.event_id \in webhook_events
          THEN /\ BillingStateUnchanged
               /\ last'.result = "ok"
               /\ last'.audits = <<>>
               /\ last'.notifications = <<>>
               /\ last'.invalidations = <<>>
               /\ event_audits'[last'.event_id] <= 1
          ELSE /\ event_audits'[last'.event_id] <= 1
               /\ last'.result = "ok" => event_audits'[last'.event_id] = 1]_vars

\* a second delivery arrived after the first one had changed a subscription
C1_Witness ==
    /\ last.op = "handle_webhook"
    /\ last.duplicate
    /\ event_audits[last.event_id] = 1
    /\ subscriptions # << >>

\* C1 (as stated): after the second delivery of an event the audit log holds
\* exactly one entry for it, written by the first delivery.
C1_ExactlyOneAuditEntry ==
    (last.op = "handle_webhook" /\ last.duplicate)
        => event_audits[last.event_id] = 1

\* C2: every persisted subscription has grace_period_expires_at set if and
\* only if its status is past_due.
C2_GraceIffPastDue ==
    \A s \in DOMAIN subscriptions :
        subscriptions[s].grace_period_expires_at # NoTime
            <=> subscriptions[s].status = "past_due"

\* the status changes the lifecycle allows
AllowedTransitions ==
    {<<"active", "past_due">>, <<"past_due", "active">>,
     <<"past_due", "canceled">>, <<"active", "canceled">>}

\* C3: the status of a persisted subscription changes only along
\* active->past_due, past_due->active, past_due->canceled, active->canceled;
\* a canceled subscription is never moved to active or past_due.
C3_OnlyAllowedTransitions ==
    [][\A s \in DOMAIN subscriptions \cap DOMAIN subscriptions' :
          \/ subscriptions'[s].status = subscriptions[s].status
          \/ <<subscriptions[s].status, subscriptions'[s].status>>
                \in AllowedTransitions]_vars

\* C4: get_entitlements for a subscription that is past_due and whose grace
\* period has not expired returns the subscription's paid plan.
C4_PastDueKeepsPaidPlan ==
    (/\ last.op = "get_entitlements"
     /\ last.returned # {}
     /\ last.subscription_id \in DOMAIN subscriptions
     /\ subscriptions[last.subscription_id].status = "past_due"
     /\ now < subscriptions[last.subscription_id].grace_period_expires_at)
    => \A r \in last.returned :
          r.payload.plan = subscriptions[last.subscription_id].plan_key

\* the tags of the invalidate_user / invalidate_subscription /
\* invalidate_organization calls made by the step that led to `last`
IssuedTags(call) ==
    call.tag_set \cup {call.invalidations[i] : i \in DOMAIN call.invalidations}

\* what get_entitlements computes from the repositories as they are
Recomputed(subject, subscription_id) ==
    _compute_payload(
        subject,
        _resolve_subscription(subscriptions, add_ons, subscription_id),
        NULL)

\* C5: while the entry of a subject and subscription_id is unexpired,
\* get_entitlements returns the cached result and leaves the cache as it is,
\* whatever the repositories hold; an unexpired entry stays in the cache
\* until an invalidate call names one of its tags, which removes it; a
\* get_entitlements that finds no unexpired entry returns what the
\* repositories' current state yields.
C5_CacheCoherence ==
    [][/\ \A k \in DOMAIN entries :
            IF entries[k].tags \cap IssuedTags(last') # {}
            THEN k \notin DOMAIN entries'
            ELSE ~is_expired(entries[k], now) =>
                    k \in DOMAIN entries' /\ entries'[k] = entries[k]
       /\ last'.op = "get_entitlements" =>
            \A subject \in last'.subject :
               LET key == cache_key(subject, last'.subscription_id)
               IN  IF key \in DOMAIN entries /\ now < entries[key].expires_at
                   THEN /\ last'.returned = {entries[key].value}
                        /\ entries' = entries
                   ELSE \A r \in last'.returned :
                           r.payload =
                              Recomputed(subject, last'.subscription_id)]_vars

\* a call answered from the cache although the repositories now yield
\* something else
C5_Witness ==
    /\ last.op = "get_entitlements"
    /\ \E subject \in last.subject, r \in last.returned :
          /\ cache_key(subject, last.subscription_id) \in DOMAIN entries
          /\ r.payload # Recomputed(subject, last.subscription_id)

\* C6: invalidate(T) removes exactly the entries whose tags intersect T and
\* leaves every other entry as it was; invalidating user:X keeps an entry
\* tagged only {user:Y, subscription:S} with X # Y; an empty T removes nothing.
C6_InvalidateExact ==
    [][last'.op = "cache.invalidate" =>
          LET T == last'.tag_set
              hit == {k \in DOMAIN entries : entries[k].tags \cap T # {}}
          IN  /\ DOMAIN entries' = DOMAIN entries \ hit
              /\ \A k \in DOMAIN entries' : entries'[k] = entries[k]
              /\ T = {} => entries' = entries
              /\ \A x \in UserIds, y \in UserIds, sub \in SubIds,
                    k \in DOMAIN entries :
                    (/\ x # y
                     /\ T = {Tag("user", x)}
                     /\ entries[k].tags =
                           {Tag("user", y), Tag("subscription", sub)})
                    => k \in DOMAIN entries']_vars

\* user:u1 was invalidated and an entry tagged {user:u2, subscription:sub_1}
\* is still cached
C6_Witness ==
    /\ last.op = "cache.invalidate"
    /\ last.tag_set = {Tag("user", "u1")}
    /\ \E k \in DOMAIN entries :
          entries[k].tags = {Tag("user", "u2"), Tag("subscription", "sub_1")}

\* the calls of one kind in a sequence of invalidator calls
CallsOfKind(calls, kind) == {i \in DOMAIN calls : calls[i].kind = kind}

\* the operation that led to `last` changed or activated a subscription
StateChangingCall ==
    /\ last.result = "ok"
    /\ \/ last.op \in {"mark_intent_completed",
                       "process_grace_period_expiration"}
       \/ last.op = "handle_webhook" /\ ~last.duplicate
       \/ last.op = "reconcile_seats" /\ last.outcome = "updated"

\* the subscription the operation that led to `last` was about
CallSubscriptionId ==
    IF last.op = "handle_webhook" THEN last.audits[1].subscription_id
    ELSE last.subscription_id

\* C7: every operation that changes or activates a subscription calls
\* invalidate_subscription(subscription_id) and exactly one of
\* invalidate_user(customer_id) for a user customer or
\* invalidate_organization(customer_id) for an organization, never the other.
C7_InvalidationBridge ==
    StateChangingCall =>
        LET subscription == subscriptions[CallSubscriptionId]
            calls == last.invalidations
            owner == IF subscription.customer_type = "user"
                     THEN "user" ELSE "organization"
            other == IF subscription.customer_type = "user"
                     THEN "organization" ELSE "user"
        IN  /\ CallSubscriptionId \in DOMAIN subscriptions
            /\ \E i \in DOMAIN calls :
                  calls[i] = Tag("subscription", CallSubscriptionId)
            /\ Cardinality(CallsOfKind(calls, owner)) = 1
            /\ \A i \in CallsOfKind(calls, owner) :
                  calls[i].id = subscription.customer_id
            /\ CallsOfKind(calls, other) = {}

\* a checkout was completed for a subscription owned by an organization
C7_Witness ==
    /\ last.op = "mark_intent_completed"
    /\ last.result = "ok"
    /\ subscriptions[last.subscription_id].customer_type = "organization"

\* C8: for an existing subscription and member_count >= 0 reconcile_seats
\* returns one outcome, in_sync iff member_count = seat_quantity,
\* under_utilized iff member_count < seat_quantity, updated or
\* overage_requires_action only when member_count > seat_quantity, and
\* records the returned result; an unknown subscription_id raises LookupError
\* and a negative member_count ValueError, with nothing recorded.
C8_SeatOutcomes ==
    [][last'.op = "reconcile_seats" =>
          LET id == last'.subscription_id
              member_count == last'.member_count
          IN  IF id \notin DOMAIN subscriptions
              THEN /\ last'.result = "LookupError"
                   /\ last'.recorded = <<>>
                   /\ last'.outcome = NULL
              ELSE IF member_count < 0
              THEN /\ last'.result = "ValueError"
                   /\ last'.recorded = <<>>
                   /\ last'.outcome = NULL
              ELSE LET seat_quantity == subscriptions[id].seat_quantity
                   IN  /\ last'.result = "ok"
                       /\ last'.outcome \in SeatReconciliationOutcome
                       /\ Len(last'.recorded) = 1
                       /\ last'.recorded[1].outcome = last'.outcome
                       /\ last'.recorded[1].subscription_id = id
                       /\ last'.recorded[1].member_count = member_count
                       /\ last'.outcome = "in_sync"
                             <=> member_count = seat_quantity
                       /\ last'.outcome = "under_utilized"
                             <=> member_count < seat_quantity
                       /\ last'.outcome \in {"updated", "overage_requires_action"}
                             => member_count > seat_quantity]_vars

\* a reconciliation found fewer members than seats
C8_Witness ==
    /\ last.op = "reconcile_seats"
    /\ last.outcome = "under_utilized"
    /\ last.member_count < subscriptions[last.subscription_id].seat_quantity

\* C9: when member_count > seat_quantity and the provider call raises,
\* reconcile_seats returns overage_requires_action, calls notify_seat_overage
\* once with the stored subscription and member_count, calls the provider
\* once, issues no invalidation and leaves the persisted subscriptions as
\* they were.
C9_ProviderFailure ==
    [][(/\ last'.op = "reconcile_seats"
        /\ last'.subscription_id \in DOMAIN subscriptions
        /\ last'.member_count > subscriptions[last'.subscription_id].seat_quantity
        /\ last'.provider_raises)
       => LET subscription == subscriptions[last'.subscription_id]
          IN  /\ last'.result = "ok"
              /\ last'.outcome = "overage_requires_action"
              /\ last'.notifications =
                    <<Notification("seat_overage", subscription, NULL, NoTime,
                                   last'.member_count)>>
              /\ last'.provider_calls = <<last'.member_count>>
              /\ last'.invalidations = <<>>
              /\ subscriptions' = subscriptions
              /\ entries' = entries]_vars

\* the provider raised on a reconciliation that asked for more seats
C9_Witness ==
    /\ last.op = "reconcile_seats"
    /\ last.provider_raises
    /\ last.member_count > subscriptions[last.subscription_id].seat_quantity
    /\ Len(last.notifications) = 1

\* C10: when member_count > seat_quantity and the provider call succeeds,
\* reconcile_seats returns updated, the persisted seat_quantity equals
\* member_count, invalidate_subscription and the owner's invalidate_user or
\* invalidate_organization are called, and notify_seat_overage is not.
C10_ProviderSuccess ==
    [][(/\ last'.op = "reconcile_seats"
        /\ last'.subscription_id \in DOMAIN subscriptions
        /\ last'.member_count > subscriptions[last'.subscription_id].seat_quantity
        /\ ~last'.provider_raises)
       => LET id == last'.subscription_id
              owner == subscriptions[id]
          IN  /\ last'.result = "ok"
              /\ last'.outcome = "updated"
              /\ subscriptions'[id].seat_quantity = last'.member_count
              /\ last'.recorded[1].seat_quantity = last'.member_count
              /\ {last'.invalidations[i] : i \in DOMAIN last'.invalidations} =
                    {Tag("subscription", id),
                     Tag(owner.customer_type, owner.customer_id)}
              /\ last'.notifications = <<>>]_vars

\* a reconciliation raised the persisted seats to the member count
C10_Witness ==
    /\ last.op = "reconcile_seats"
    /\ last.outcome = "updated"
    /\ ~last.provider_raises
    /\ subscriptions[last.subscription_id].seat_quantity = last.member_count
    /\ last.member_count > 1

\* the step is a first delivery of an invoice event of the given type whose
\* invoice names a persisted subscription
FirstInvoiceDelivery(event_type) ==
    /\ last'.op = "handle_webhook"
    /\ last'.event_type = event_type
    /\ last'.event_id \notin webhook_events
    /\ last'.invoice_id # NULL
    /\ last'.subscription_id \in DOMAIN subscriptions

\* the owner tag of a subscription
OwnerTag(subscription) ==
    Tag(subscription.customer_type, subscription.customer_id)

\* the set of tags invalidated by a sequence of invalidator calls
TagsOf(calls) == {calls[i] : i \in DOMAIN calls}

\* C11: reconcile_seats never lowers a persisted seat_quantity; when
\* member_count <= seat_quantity it makes no provider call, sends no
\* notification, issues no invalidation, logs no audit event and leaves the
\* persisted subscriptions unchanged.
C11_NeverShrinks ==
    [][last'.op = "reconcile_seats" =>
          /\ \A s \in DOMAIN subscriptions :
                /\ s \in DOMAIN subscriptions'
                /\ subscriptions'[s].seat_quantity
                      >= subscriptions[s].seat_quantity
          /\ (/\ last'.subscription_id \in DOMAIN subscriptions
              /\ last'.member_count >= 0
              /\ last'.member_count
                    <= subscriptions[last'.subscription_id].seat_quantity)
             => /\ last'.outcome \in {"in_sync", "under_utilized"}
                /\ last'.provider_calls = <<>>
                /\ last'.notifications = <<>>
                /\ last'.invalidations = <<>>
                /\ last'.audits = <<>>
                /\ BillingStateUnchanged]_vars

\* a reconciliation found as many members as seats
C11_Witness ==
    /\ last.op = "reconcile_seats"
    /\ last.outcome = "in_sync"
    /\ last.member_count = subscriptions[last.subscription_id].seat_quantity

\* C12: a first-delivery invoice.payment_failed webhook for an existing
\* subscription records the invoice, sets the status to past_due with
\* grace_period_expires_at = now + grace_period_days, calls
\* notify_payment_failure once with that deadline, logs one PAYMENT_FAILED
\* audit event carrying the invoice_id and invalidates the subscription's
\* caches.
C12_PaymentFailed ==
    [][FirstInvoiceDelivery("invoice.payment_failed") =>
          LET id == last'.subscription_id
              deadline == now + grace_period_days * SecondsPerDay
          IN  /\ last'.result = "ok"
              /\ last'.invoice_id \in DOMAIN invoices'
              /\ invoices'[last'.invoice_id].subscription_id = id
              /\ subscriptions' =
                    [subscriptions EXCEPT
                        ![id].status = "past_due",
                        ![id].grace_period_expires_at = deadline]
              /\ Len(last'.notifications) = 1
              /\ last'.notifications[1].kind = "payment_failure"
              /\ last'.notifications[1].subscription_id = id
              /\ last'.notifications[1].invoice_id = last'.invoice_id
              /\ last'.notifications[1].grace_period_expires_at = deadline
              /\ Len(last'.audits) = 1
              /\ last'.audits[1].event_type = "payment_failed"
              /\ last'.audits[1].subscription_id = id
              /\ last'.audits[1].invoice_id = last'.invoice_id
              /\ TagsOf(last'.invalidations) =
                    {Tag("subscription", id), OwnerTag(subscriptions[id])}]_vars

\* a payment failure at a later time put a subscription into its grace period
C12_Witness ==
    /\ last.op = "handle_webhook"
    /\ last.event_type = "invoice.payment_failed"
    /\ last.result = "ok"
    /\ ~last.duplicate
    /\ now > 0
    /\ subscriptions[last.subscription_id].status = "past_due"
    /\ subscriptions[last.subscription_id].grace_period_expires_at
          = now + grace_period_days * SecondsPerDay

\* C13: a first-delivery invoice.payment_succeeded webhook for a past_due
\* subscription records the invoice, sets the status to active and
\* grace_period_expires_at to None, logs one PAYMENT_RECOVERED audit event,
\* invalidates the subscription's caches and sends no notification.
C13_PaymentRecovered ==
    [][(/\ FirstInvoiceDelivery("invoice.payment_succeeded")
        /\ subscriptions[last'.subscription_id].status = "past_due")
       => LET id == last'.subscription_id
          IN  /\ last'.result = "ok"
              /\ last'.invoice_id \in DOMAIN invoices'
              /\ invoices'[last'.invoice_id].subscription_id = id
              /\ subscriptions' =
                    [subscriptions EXCEPT
                        ![id].status = "active",
                        ![id].grace_period_expires_at = NoTime]
              /\ Len(last'.audits) = 1
              /\ last'.audits[1].event_type = "payment_recovered"
              /\ last'.audits[1].subscription_id = id
              /\ TagsOf(last'.invalidations) =
                    {Tag("subscription", id), OwnerTag(subscriptions[id])}
              /\ last'.notifications = <<>>]_vars

\* a payment recovered a subscription
C13_Witness ==
    /\ last.op = "handle_webhook"
    /\ last.event_type = "invoice.payment_succeeded"
    /\ last.result = "ok"
    /\ Len(last.audits) = 1
    /\ subscriptions[last.subscription_id].status = "active"
    /\ subscriptions[last.subscription_id].grace_period_expires_at = NoTime

\* C14: process_grace_period_expiration raises LookupError with no side
\* effects for an unknown subscription; for a past_due subscription it sets
\* status canceled and grace_period_expires_at None, calls
\* notify_grace_period_expired once, logs one GRACE_PERIOD_EXPIRED audit event
\* and invalidates the caches of the subscription and of its owner.
C14_GraceExpiry ==
    [][last'.op = "process_grace_period_expiration" =>
          LET id == last'.subscription_id
          IN  IF id \notin DOMAIN subscriptions
              THEN /\ last'.result = "LookupError"
                   /\ BillingStateUnchanged
                   /\ last'.notifications = <<>>
                   /\ last'.audits = <<>>
                   /\ last'.invalidations = <<>>
              ELSE subscriptions[id].status = "past_due" =>
                   /\ last'.result = "ok"
                   /\ subscriptions' =
                         [subscriptions EXCEPT
                             ![id].status = "canceled",
                             ![id].grace_period_expires_at = NoTime]
                   /\ Len(last'.notifications) = 1
                   /\ last'.notifications[1].kind = "grace_period_expired"
                   /\ last'.notifications[1].subscription_id = id
                   /\ Len(last'.audits) = 1
                   /\ last'.audits[1].event_type = "grace_period_expired"
                   /\ last'.audits[1].subscription_id = id
                   /\ TagsOf(last'.invalidations) =
                         {Tag("subscription", id),
                          OwnerTag(subscriptions[id])}]_vars

\* the sweep canceled a subscription owned by an organization
C14_Witness ==
    /\ last.op = "process_grace_period_expiration"
    /\ last.result = "ok"
    /\ subscriptions[last.subscription_id].status = "canceled"
    /\ subscriptions[last.subscription_id].customer_type = "organization"

\* C15: process_grace_period_expiration invoked for a subscription that is
\* active does not move it to canceled.
C15_ExpiryOnlyWhenPastDue ==
    [][(/\ last'.op = "process_grace_period_expiration"
        /\ last'.subscription_id \in DOMAIN subscriptions
        /\ subscriptions[last'.subscription_id].status = "active")
       => subscriptions'[last'.subscription_id].status # "canceled"]_vars

\* C16: after a subscription.canceled webhook is processed the persisted
\* subscription has status canceled and grace_period_expires_at None,
\* whatever its sub-payload carries.
C16_CanceledWebhookCancels ==
    (/\ last.op = "handle_webhook"
     /\ last.event_type = "subscription.canceled"
     /\ ~last.duplicate
     /\ last.result = "ok")
    => /\ last.subscription_id \in DOMAIN subscriptions
       /\ subscriptions[last.subscription_id].status = "canceled"
       /\ subscriptions[last.subscription_id].grace_period_expires_at = NoTime

\* the flags of the free plan
FreeFlags ==
    [f \in FlagNames |-> IF f = "storage.quota_gb" THEN 5 ELSE FALSE]

C20_MissingMembership ==
    [][last'.op = "get_entitlements" =>
          \A subject \in last'.subject :
             LET key == cache_key(subject, last'.subscription_id)
                 member == <<subject.user_id, subject.organization_id>>
             IN  subject.organization_id # NULL =>
                    IF member \notin DOMAIN memberships
                    THEN /\ last'.result = "LookupError"
                         /\ last'.returned = {}
                         /\ key \notin DOMAIN entries'
                         /\ entries' = entries
                    ELSE key \notin DOMAIN entries =>
                         /\ last'.result = "ok"
                         /\ \A r \in last'.returned :
                               r.payload =
                                  _compute_payload(
                                      subject,
                                      _resolve_subscription(
                                          subscriptions, add_ons,
                                          last'.subscription_id),
                                      memberships[member])
                         /\ last'.returned # {}]_vars

\* a lookup failed for want of a membership and left no cache entry
C20_Witness ==
    /\ last.op = "get_entitlements"
    /\ last.result = "LookupError"
    /\ \E subject \in last.subject :
          /\ subject = Subject("u1", "o1")
          /\ cache_key(subject, last.subscription_id) \notin DOMAIN entries
          /\ <<"u1", "o1">> \notin DOMAIN memberships

\* the concurrent handle_webhook calls that carry an event_id
CallsOf(event_id) ==
    {c \in DOMAIN in_flight :
        /\ in_flight[c].op = "handle_webhook"
        /\ in_flight[c].event.event_id = event_id}

\* the calls whose insert of the event_id succeeded
Dispatchers(event_id) == {c \in CallsOf(event_id) : in_flight[c].stored}

\* C17 (as amended): of the concurrent handle_webhook calls carrying one
\* event_id exactly one passes the idempotency gate; the others return
\* without error, audit event, notification, invalidation or change of the
\* persisted state; the event leaves at most one audit event and one
\* notification, and exactly one audit event once the call that passed the
\* gate has returned without error.
C17_OneDispatchPerEvent ==
    /\ [](\A e \in EventIds :
            CallsOf(e) # {} =>
               /\ Cardinality(Dispatchers(e)) = 1
               /\ event_audits[e] <= 1
               /\ \A c \in CallsOf(e) \ Dispatchers(e) :
                     in_flight[c].pc = "returned" =>
                        /\ in_flight[c].result = "ok"
                        /\ in_flight[c].audits = <<>>
                        /\ in_flight[c].notifications = <<>>
                        /\ in_flight[c].invalidations = <<>>
               /\ \A c \in Dispatchers(e) :
                     /\ Len(in_flight[c].notifications) <= 1
                     /\ event_audits[e] = Len(in_flight[c].audits)
                     /\ (in_flight[c].pc = "returned"
                           /\ in_flight[c].result = "ok")
                        => event_audits[e] = 1)
    /\ [][\A c \in DOMAIN in_flight :
             (/\ in_flight[c].op = "handle_webhook"
              /\ in_flight[c].pc = "recorded"
              /\ in_flight'[c].pc = "returned"
              /\ ~in_flight[c].stored)
             => BillingStateUnchanged]_vars

\* two concurrent deliveries of the failed payment have both returned and
\* left one audit event
C17_Witness ==
    /\ Cardinality(CallsOf("evt_2")) = 2
    /\ \A c \in CallsOf("evt_2") : in_flight[c].pc = "returned"
    /\ event_audits["evt_2"] = 1

\* C17 (as stated): once the concurrent calls carrying an event_id have all
\* returned, exactly one audit event has been appended for it.
C17_ExactlyOneAuditEvent ==
    \A e \in EventIds :
        (/\ Cardinality(CallsOf(e)) >= 2
         /\ \A c \in CallsOf(e) : in_flight[c].pc = "returned")
        => event_audits[e] = 1

\* C18: a get_entitlements call that starts after every subscription change
\* and its invalidation have completed returns entitlements computed from
\* the repositories' current state, whatever calls were in flight before.
C18_NoStaleEntryAfterInvalidation ==
    (last.op = "get_entitlements" /\ last.result = "ok")
    => \A subject \in last.subject, r \in last.returned :
          r.payload = Recomputed(subject, last.subscription_id)

\* the sum of the quantities of the grants of one add-on type
RECURSIVE SumOfQuantities(_, _)
SumOfQuantities(grants, add_on_type) ==
    IF grants = <<>> THEN 0
    ELSE (IF Head(grants).add_on_type = add_on_type
          THEN Head(grants).quantity ELSE 0)
         + SumOfQuantities(Tail(grants), add_on_type)

\* a step in which get_entitlements misses the cache and computes its result
ComputesEntitlements ==
    /\ last'.op = "get_entitlements"
    /\ last'.result = "ok"
    /\ \A subject \in last'.subject :
          CacheValue(entries, cache_key(subject, last'.subscription_id), now)
              = {}

\* C21: the storage quota computed for an active subscription is the base
\* quota of the role's bundle plus 100 GB per granted storage_100_gb unit
\* when the plan supports that add-on, and the base quota alone when it does
\* not (the free plan).
C21_StorageQuota ==
    [][(/\ ComputesEntitlements
        /\ last'.subscription_id \in DOMAIN subscriptions
        /\ subscriptions[last'.subscription_id].status = "active")
       => LET subscription == subscriptions[last'.subscription_id]
              plan == PLAN_CATALOG[subscription.plan_key]
              quantity == SumOfQuantities(add_ons[last'.subscription_id],
                                          "storage_100_gb")
          IN  \A r \in last'.returned :
                 r.payload.feature_flags["storage.quota_gb"] =
                    bundle_for_role(plan, r.payload.role).storage_quota_gb
                    + (IF "storage_100_gb" \in plan.supports_add_ons
                       THEN 100 * quantity ELSE 0)]_vars

\* two grants of different quantities were added up on a supporting plan
C21_Witness ==
    /\ last.op = "get_entitlements"
    /\ last.subscription_id = "sub_1"
    /\ "sub_1" \in DOMAIN subscriptions
    /\ subscriptions["sub_1"].status = "active"
    /\ Len(add_ons["sub_1"]) = 2
    /\ add_ons["sub_1"][1].quantity # add_ons["sub_1"][2].quantity
    /\ subscriptions["sub_1"].plan_key = "individual_pro"
    /\ \E r \in last.returned :
          r.payload.feature_flags["storage.quota_gb"] = 400

\* the plan get_entitlements resolves for a subscription id: the plan of the
\* active subscription, the free plan otherwise
ResolvedPlan(subscription_id) ==
    IF /\ subscription_id \in DOMAIN subscriptions
       /\ subscriptions[subscription_id].status = "active"
    THEN PLAN_CATALOG[subscriptions[subscription_id].plan_key]
    ELSE PLAN_CATALOG["free"]

\* the role of the subject's membership in its organization, NULL without one
RoleOf(subject) ==
    IF /\ subject.organization_id # NULL
       /\ <<subject.user_id, subject.organization_id>> \in DOMAIN memberships
    THEN memberships[<<subject.user_id, subject.organization_id>>]
    ELSE NULL

\* C22: in a computed payload org.admin is true exactly when the resolved
\* plan defines an admin override and the subject's role is admin or owner;
\* the other boolean flags are those of the plan's member bundle, and the
\* storage quota is the member bundle's or more (add-on storage).
C22_OrgAdminFlag ==
    [][ComputesEntitlements
       => \A subject \in last'.subject, r \in last'.returned :
             LET plan == ResolvedPlan(last'.subscription_id)
                 flags == r.payload.feature_flags
                 member == to_flags(plan.member_bundle)
             IN  /\ flags["org.admin"] =
                       (/\ plan.admin_override # {}
                        /\ RoleOf(subject) \in {"admin", "owner"})
                 /\ \A f \in {"ads.disabled", "sync.enabled",
                               "search.advanced"} : flags[f] = member[f]
                 /\ flags["storage.quota_gb"] >= member["storage.quota_gb"]
                 /\ (flags["storage.quota_gb"] - member["storage.quota_gb"])
                        % 100 = 0]_vars

\* an owner of the organization holding the team plan was given org.admin
C22_Witness ==
    /\ last.op = "get_entitlements"
    /\ last.subject = {Subject("u1", "o1")}
    /\ RoleOf(Subject("u1", "o1")) = "owner"
    /\ "sub_1" \in DOMAIN subscriptions
    /\ subscriptions["sub_1"].plan_key = "team"
    /\ \E r \in last.returned :
          /\ r.payload.role = "owner"
          /\ r.payload.feature_flags["org.admin"]
          /\ r.payload.feature_flags["ads.disabled"]

\* C23: merge returns, field by field, the override's value when it differs
\* from the defaults (False, False, False, 5, False) and the base's value
\* otherwise; so merging the all-defaults bundle changes nothing, merging the
\* same override a second time changes nothing, and the operands stay as
\* they were.
C23_MergeFieldByField ==
    [][last'.op = "merge"
       => LET defaults == FeatureBundle(FALSE, FALSE, FALSE, 5, FALSE)
          IN  /\ \A f \in DOMAIN last.merged :
                    last'.merged[f] =
                       IF last.override[f] # defaults[f]
                       THEN last.override[f] ELSE last.merged[f]
              /\ last.override = defaults => last'.merged = last.merged
              /\ last.merges >= 1 => last'.merged = last.merged
              /\ last'.base = last.base
              /\ last'.override = last.override]_vars

\* an override that sets the quota back to 5 and turns a flag on was merged
\* twice into a bundle with a quota of 100: the quota stayed, the flag went on
C23_Witness ==
    /\ last.op = "merge"
    /\ last.merges = 2
    /\ last.base = FeatureBundle(TRUE, FALSE, TRUE, 100, FALSE)
    /\ last.override = FeatureBundle(FALSE, FALSE, FALSE, 5, TRUE)
    /\ last.merged = FeatureBundle(TRUE, FALSE, TRUE, 100, TRUE)

\* C24: get never returns an entry whose expires_at is at or before the
\* current time: it answers none and removes the entry; every other entry,
\* and a live entry that is read, stay as they were. set with an expires_at
\* at or before the current time stores nothing.
C24_ExpiredNeverReturned ==
    [][/\ last'.op = "cache.get"
          => LET key == last'.key
                 lapsed == key \in DOMAIN entries
                           /\ entries[key].expires_at <= now
             IN  /\ lapsed => (last'.returned = {} /\ key \notin DOMAIN entries')
                 /\ \A r \in last'.returned :
                       /\ key \in DOMAIN entries
                       /\ r = entries[key].value
                       /\ entries[key].expires_at > now
                 /\ ~lapsed => entries' = entries
                 /\ \A k \in DOMAIN entries \ {key} :
                       k \in DOMAIN entries' /\ entries'[k] = entries[k]
       /\ (last'.op = "cache.set" /\ last'.expires_at <= now)
          => entries' = entries]_vars

\* a get found an entry whose expiry lay strictly in the past, answered none
\* and removed it
C24_Witness ==
    /\ last.op = "cache.get"
    /\ last.returned = {}
    /\ last.key \notin DOMAIN entries
    /\ \E entry \in last.evicted : entry.expires_at < now

\* the intents persisted under a provider session id
IntentsOfSession(session_id) ==
    {i \in DOMAIN purchase_intents :
        purchase_intents[i].provider_session_id = session_id}

\* C25: mark_intent_completed applied to an intent that is already
\* completed, expired or canceled leaves its status as it is and logs no
\* SUBSCRIPTION_ACTIVATED audit event.
C25_CompletedOnlyFromPending ==
    [][last'.op = "mark_intent_completed"
       => \A i \in IntentsOfSession(last'.session_id) :
             purchase_intents[i].status # "pending"
             => /\ purchase_intents'[i].status = purchase_intents[i].status
                /\ last'.audits = << >>]_vars

\* C26: mark_intent_completed raises LookupError for an unknown session id,
\* KeyError when the intent's metadata has no subscription_id and LookupError
\* when that subscription is not persisted, with no audit event and no
\* invalidation; otherwise it sets the intent to completed, invalidates the
\* tags of the subscription and of its owner, logs exactly one
\* SUBSCRIPTION_ACTIVATED audit event and returns the subscription, which it
\* leaves unchanged.
C26_MarkIntentCompleted ==
    [][last'.op = "mark_intent_completed"
       => LET found == IntentsOfSession(last'.session_id)
              quiet == /\ last'.audits = << >>
                       /\ last'.invalidations = << >>
                       /\ entries' = entries
          IN  /\ subscriptions' = subscriptions
              /\ found = {} => (last'.result = "LookupError" /\ quiet)
              /\ \A i \in found :
                    LET metadata == purchase_intents[i].metadata
                    IN  IF "subscription_id" \notin DOMAIN metadata
                        THEN last'.result = "KeyError" /\ quiet
                        ELSE IF metadata["subscription_id"]
                                   \notin DOMAIN subscriptions
                        THEN last'.result = "LookupError" /\ quiet
                        ELSE LET subscription ==
                                     subscriptions[metadata["subscription_id"]]
                             IN  /\ last'.result = "ok"
                                 /\ purchase_intents'[i].status = "completed"
                                 /\ TagsOf(last'.invalidations) =
                                       {Tag("subscription",
                                            subscription.subscription_id),
                                        OwnerTag(subscription)}
                                 /\ \A k \in DOMAIN entries' :
                                       entries'[k].tags
                                          \cap TagsOf(last'.invalidations) = {}
                                 /\ Len(last'.audits) = 1
                                 /\ last'.audits[1].event_type =
                                       "subscription_activated"
                                 /\ last'.audits[1].subscription_id =
                                       subscription.subscription_id
                                 /\ last'.returned = {subscription}]_vars

\* a checkout was completed: the intent is completed, the subscription was
\* returned and its tags and its owner's were invalidated
C26_Witness ==
    /\ last.op = "mark_intent_completed"
    /\ last.result = "ok"
    /\ \E i \in IntentsOfSession(last.session_id) :
          purchase_intents[i].status = "completed"
    /\ Len(last.audits) = 1
    /\ last.returned = {subscriptions["sub_1"]}
    /\ Tag("subscription", "sub_1") \in TagsOf(last.invalidations)
    /\ OwnerTag(subscriptions["sub_1"]) \in TagsOf(last.invalidations)

\* C27: create_checkout_session with seat_quantity < 1 raises ValueError,
\* persists no intent and does not call the provider; a call that succeeds
\* leaves exactly one more intent, pending, carrying the provider's session
\* id, url and expiry, found by that session id, and the provider was passed
\* a purchase_intent_id equal to the intent's id whatever the caller metadata.
C27_CheckoutPersistsIntent ==
    [][last'.op = "create_checkout_session"
       => /\ last'.result = "ValueError"
             => (purchase_intents' = purchase_intents
                 /\ last'.provider_calls = << >>)
          /\ last'.result = "ok"
             => \A session \in last'.session :
                   LET i == last'.intent_id
                   IN  /\ DOMAIN purchase_intents' =
                             DOMAIN purchase_intents \cup {i}
                       /\ i \notin DOMAIN purchase_intents
                       /\ purchase_intents'[i].status = "pending"
                       /\ purchase_intents'[i].provider_session_id = session.id
                       /\ purchase_intents'[i].provider_session_url
                             = session.url
                       /\ purchase_intents'[i].expires_at = session.expires_at
                       /\ get_purchase_intent_by_session(purchase_intents',
                                                         session.id)
                             = {purchase_intents'[i]}
                       /\ Len(last'.provider_calls) = 1
                       /\ last'.provider_calls[1].metadata["purchase_intent_id"]
                             = i]_vars

\* C28: a subscription.created / .updated / .canceled webhook that is
\* processed to the end leaves the subscription persisted under its
\* subscription_id, every other subscription as it was, and logs exactly one
\* audit event: SUBSCRIPTION_CANCELED for subscription.canceled, otherwise
\* SUBSCRIPTION_ACTIVATED when the persisted status is active, otherwise
\* SUBSCRIPTION_UPDATED.
C28_SubscriptionEventAudit ==
    [][(/\ last'.op = "handle_webhook"
        /\ last'.event_type \in SubscriptionEventTypes
        /\ last'.result = "ok"
        /\ ~last'.duplicate)
       => LET id == last'.subscription_id
          IN  /\ DOMAIN subscriptions' = DOMAIN subscriptions \cup {id}
              /\ subscriptions'[id].subscription_id = id
              /\ \A s \in DOMAIN subscriptions \ {id} :
                    subscriptions'[s] = subscriptions[s]
              /\ Len(last'.audits) = 1
              /\ last'.audits[1].subscription_id = id
              /\ last'.audits[1].event_type =
                    IF last'.event_type = "subscription.canceled"
                    THEN "subscription_canceled"
                    ELSE IF subscriptions'[id].status = "active"
                    THEN "subscription_activated"
                    ELSE "subscription_updated"]_vars

\* a subscription.updated webhook persisted a past_due status and was logged
\* as SUBSCRIPTION_UPDATED
C28_Witness ==
    /\ last.op = "handle_webhook"
    /\ last.event_type = "subscription.updated"
    /\ last.result = "ok"
    /\ ~last.duplicate
    /\ last.subscription_id \in DOMAIN subscriptions
    /\ subscriptions[last.subscription_id].status = "past_due"
    /\ Len(last.audits) = 1
    /\ last.audits[1].event_type = "subscription_updated"

\* a flag with no entry, or whose entry is False or 0
Falsy(feature_flags, flag) ==
    \/ flag \notin DOMAIN feature_flags
    \/ (flag = "storage.quota_gb" /\ feature_flags[flag] = 0)
    \/ (flag # "storage.quota_gb" /\ feature_flags[flag] = FALSE)

\* C29: require_entitlement raises FeatureGateError, with the given code
\* (entitlement_required by default) and missing_entitlement = f in its
\* payload, exactly when the flags have no entry for f or a falsy one, and
\* does nothing otherwise; EntitlementContext.has(f) is true exactly when
\* EntitlementContext.require(f) does not raise.
C29_RequireEntitlement ==
    /\ last.op \in {"require_entitlement", "require"}
       => IF Falsy(last.feature_flags, last.flag)
          THEN /\ last.raised.result = "FeatureGateError"
               /\ last.raised.code = last.error_code
               /\ last.raised.payload["missing_entitlement"] = last.flag
          ELSE last.raised.result = "ok"
    /\ last.op = "has"
       => (last.value <=>
             RequireEntitlement(last.feature_flags, last.flag,
                                "entitlement_required").result = "ok")
    /\ last.op = "has" => (last.value <=> ~Falsy(last.feature_flags, last.flag))

\* a quota of 0 GB was refused like a missing flag, with the default code
C29_Witness ==
    /\ last.op = "require_entitlement"
    /\ last.flag = "storage.quota_gb"
    /\ last.flag \in DOMAIN last.feature_flags
    /\ last.feature_flags[last.flag] = 0
    /\ last.error_code = "entitlement_required"
    /\ last.raised.result = "FeatureGateError"
    /\ last.raised.code = "entitlement_required"
    /\ last.raised.payload["missing_entitlement"] = "storage.quota_gb"

\* C30: with projected = usage + max(pending, 0), should_warn holds iff
\* projected >= quota and allowed iff projected <= quota x threshold;
\* assert_quota raises FeatureGateError(storage_quota_exceeded) exactly when
\* allowed is false; so for quota >= 0 and threshold >= 1 every blocked
\* request is a warned one, and a projected usage from the quota up to
\* quota x threshold is warned and allowed.
C30_StorageQuota ==
    last.op \in {"evaluate_storage_quota", "assert_quota"}
    => LET e == last.evaluation
           pending == IF last.pending_upload_gb < 0 THEN 0
                      ELSE last.pending_upload_gb
           projected == last.usage_gb + pending
           blocked == projected * 100 > e.quota_gb * e.threshold
       IN  /\ e.projected_usage_gb = projected
           /\ e.should_warn <=> projected >= e.quota_gb
           /\ e.allowed <=> ~blocked
           /\ last.op = "assert_quota"
              => /\ last.raised.result = "FeatureGateError" <=> ~e.allowed
                 /\ ~e.allowed => last.raised.code = "storage_quota_exceeded"
                 /\ e.allowed => last.raised.result = "ok"
           /\ (e.quota_gb >= 0 /\ e.threshold >= 100)
              => /\ ~e.allowed => e.should_warn
                 /\ (projected >= e.quota_gb /\ ~blocked)
                    => (e.should_warn /\ e.allowed)

\* 9 GB used and a 1 GB upload pending against a quota of 10 GB: at the
\* quota, below the block threshold, so warned and let through
C30_Witness ==
    /\ last.op = "assert_quota"
    /\ last.usage_gb = 9
    /\ last.pending_upload_gb = 1
    /\ last.evaluation.quota_gb = 10
    /\ last.evaluation.threshold = _DEFAULT_BLOCK_THRESHOLD
    /\ last.evaluation.should_warn
    /\ last.evaluation.allowed
    /\ last.raised.result = "ok"

\* ------------------------------------------------------ OrganizationService
\* ROLE_HIERARCHY: the rank of each membership role
MembershipRoles == {"member", "admin", "owner"}

ROLE_HIERARCHY == [member |-> 1, admin |-> 2, owner |-> 3]

\* a check that lets every role assign every role
_role_allows_anything(actor_role, target_role) == TRUE

\* whether a role can assign the target role
_role_allows_assignment(actor_role, target_role) ==
    ROLE_HIERARCHY[actor_role] >= ROLE_HIERARCHY[target_role]

\* a guard that protects no role
OwnerOnlyNever(actor_role, role) == FALSE

\* "only an owner may ...": the role at stake is OWNER and the actor is not one
OwnerOnly(actor_role, role) == role = "owner" /\ actor_role # "owner"

\* the organizations the repository holds: o1 is billed through sub_1, o2 has
\* no subscription
Organizations ==
    [o1 |-> [id |-> "o1", subscription_id |-> "sub_1"],
     o2 |-> [id |-> "o2", subscription_id |-> NULL]]

\* repository.get_organization: the organization, or none (LookupError)
get_organization(organization_id) == Lookup(Organizations, organization_id)

OrganizationMembership(role, status) == [role |-> role, status |-> status]

\* repository.get_membership of the organization service
get_org_membership(ms, organization_id, user_id) ==
    Lookup(ms, <<organization_id, user_id>>)

\* repository.save_membership: one record per (organization, user)
save_membership(ms, organization_id, user_id, membership) ==
    Put(ms, <<organization_id, user_id>>, membership)

\* OrganizationMembership.consumes_seat
consumes_seat(membership) == membership.status = "active"

\* a removal that leaves the membership as it was
revoked_in_name_only(membership) == membership

\* target_membership.model_copy(update={"status": REVOKED, ...})
revoked(membership) == [membership EXCEPT !.status = "revoked"]

MembershipInvitation(organization_id, role, inviter_id, expires_at) ==
    [organization_id |-> organization_id, role |-> role,
     inviter_id |-> inviter_id, expires_at |-> expires_at]

\* the default lifetime of an invitation, in seconds
invitation_ttl == invitation_ttl_days * SecondsPerDay

\* a delete that leaves the invitation in place
delete_invitation_noop(invs, token) == invs

\* repository.delete_invitation
delete_invitation(invs, token) ==
    [t \in DOMAIN invs \ {token} |-> invs[t]]

MembershipAuditEvent(org, actor_id, subject_id, action, before, after) ==
    [organization_id |-> org, actor_id |-> actor_id, subject_id |-> subject_id,
     action |-> action, role_before |-> before, role_after |-> after]

\* an invalidation that forgets the organization's subscription
_invalidate_without_subscription(organization, user_id) ==
    <<Tag("organization", organization.id)>>
    \o (IF user_id # NULL THEN <<Tag("user", user_id)>> ELSE <<>>)

\* OrganizationService._invalidate_entitlements: the invalidator calls made
_invalidate_member_entitlements(organization, user_id) ==
    <<Tag("organization", organization.id)>>
    \o (IF organization.subscription_id # NULL
        THEN <<Tag("subscription", organization.subscription_id)>>
        ELSE <<>>)
    \o (IF user_id # NULL THEN <<Tag("user", user_id)>> ELSE <<>>)

\* what `last` holds after an operation of the organization service
OrgCall(op, org, actor_id, target, role, token, result, effects) ==
    [op |-> op, organization_id |-> org, actor_id |-> actor_id,
     target_user_id |-> target, role |-> role, token |-> token,
     result |-> result, audits |-> effects.audits,
     invalidations |-> effects.invalidations,
     enqueued |-> effects.enqueued] @@ NoCall

NoEffects == [audits |-> <<>>, invalidations |-> <<>>, enqueued |-> <<>>]

\* _require_membership / _require_active_membership: "ok" or the error raised
RequireMembership(ms, organization_id, user_id) ==
    IF get_org_membership(ms, organization_id, user_id) = {}
    THEN "LookupError" ELSE "ok"

RequireActiveMembership(ms, organization_id, user_id) ==
    IF get_org_membership(ms, organization_id, user_id) = {}
    THEN "LookupError"
    ELSE IF ms[<<organization_id, user_id>>].status # "active"
         THEN "PermissionError" ELSE "ok"

\* the operation raised: nothing is written and no collaborator is called
OrgRaise(op, org, actor_id, target, role, token, error) ==
    /\ last' = OrgCall(op, org, actor_id, target, role, token, error, NoEffects)
    /\ UNCHANGED <<org_memberships, invitations, entries>>

\* OrganizationService.invite_member; expires_at NoTime (None) asks for the
\* default lifetime
invite_member(organization_id, inviter_id, role, expires_at, token) ==
    /\ LET op == "invite_member"
           active == RequireActiveMembership(org_memberships, organization_id,
                                             inviter_id)
           invitation_expires_at ==
               IF expires_at = NoTime THEN now + invitation_ttl ELSE expires_at
       IN  IF get_organization(organization_id) = {}
           THEN OrgRaise(op, organization_id, inviter_id, NULL, role, NULL,
                         "LookupError")
           ELSE IF active # "ok"
           THEN OrgRaise(op, organization_id, inviter_id, NULL, role, NULL,
                         active)
           ELSE IF ~_role_allows_assignment(
                      org_memberships[<<organization_id, inviter_id>>].role,
                      role)
           THEN OrgRaise(op, organization_id, inviter_id, NULL, role, NULL,
                         "PermissionError")
           ELSE IF invitation_expires_at <= now
           THEN OrgRaise(op, organization_id, inviter_id, NULL, role, token,
                         "ValueError")
           ELSE /\ invitations' =
                      Put(invitations, token,
                          MembershipInvitation(organization_id, role,
                                               inviter_id,
                                               invitation_expires_at))
                /\ last' =
                      OrgCall(op, organization_id, inviter_id, NULL, role,
                              token, "ok",
                              [NoEffects EXCEPT !.audits =
                                  <<MembershipAuditEvent(
                                      organization_id, inviter_id, "email",
                                      "invite", NULL, NULL)>>])
                /\ UNCHANGED <<org_memberships, entries>>
    /\ UNCHANGED <<in_flight, now, subscriptions, invoices, webhook_events,
                   purchase_intents, event_audits, add_ons, memberships>>

\* OrganizationService.accept_invitation
accept_invitation(token, user_id) ==
    /\ LET op == "accept_invitation"
       IN  IF Lookup(invitations, token) = {}
           THEN OrgRaise(op, NULL, user_id, user_id, NULL, token,
                         "LookupError")
           ELSE
           LET invitation == invitations[token]
               org == invitation.organization_id
               calls == _invalidate_member_entitlements(Organizations[org],
                                                        user_id)
           IN  IF get_organization(org) = {}
               THEN OrgRaise(op, org, user_id, user_id, invitation.role,
                             token, "LookupError")
               ELSE IF invitation.expires_at <= now
               THEN OrgRaise(op, org, user_id, user_id, invitation.role,
                             token, "PermissionError")
               ELSE /\ org_memberships' =
                          save_membership(
                              org_memberships, org, user_id,
                              OrganizationMembership(invitation.role,
                                                     "active"))
                    /\ invitations' = delete_invitation(invitations, token)
                    /\ entries' = InvalidateAll(entries, calls)
                    /\ last' =
                          OrgCall(op, org, user_id, user_id, invitation.role,
                                  token, "ok",
                                  [audits |-> <<MembershipAuditEvent(
                                       org, user_id, user_id, "accept", NULL,
                                       invitation.role)>>,
                                   invalidations |-> calls,
                                   enqueued |-> <<org>>])
    /\ UNCHANGED <<in_flight, now, subscriptions, invoices, webhook_events,
                   purchase_intents, event_audits, add_ons, memberships>>

\* OrganizationService.remove_member
remove_member(organization_id, actor_id, target_user_id) ==
    /\ LET op == "remove_member"
           org == organization_id
           active == RequireActiveMembership(org_memberships, org, actor_id)
           found == RequireMembership(org_memberships, org, target_user_id)
           actor == org_memberships[<<org, actor_id>>]
           target == org_memberships[<<org, target_user_id>>]
           calls == _invalidate_member_entitlements(Organizations[org],
                                                    target_user_id)
       IN  IF get_organization(org) = {}
           THEN OrgRaise(op, org, actor_id, target_user_id, NULL, NULL,
                         "LookupError")
           ELSE IF active # "ok"
           THEN OrgRaise(op, org, actor_id, target_user_id, NULL, NULL, active)
           ELSE IF found # "ok"
           THEN OrgRaise(op, org, actor_id, target_user_id, NULL, NULL, found)
           ELSE IF OwnerOnly(actor.role, target.role)
           THEN OrgRaise(op, org, actor_id, target_user_id, NULL, NULL,
                         "PermissionError")
           ELSE IF /\ ROLE_HIERARCHY[actor.role] <= ROLE_HIERARCHY[target.role]
                   /\ actor_id # target_user_id
           THEN OrgRaise(op, org, actor_id, target_user_id, NULL, NULL,
                         "PermissionError")
           ELSE /\ org_memberships' =
                      save_membership(org_memberships, org, target_user_id,
                                      revoked(target))
                /\ entries' = InvalidateAll(entries, calls)
                /\ last' =
                      OrgCall(op, org, actor_id, target_user_id, NULL, NULL,
                              "ok",
                              [audits |-> <<MembershipAuditEvent(
                                   org, actor_id, target_user_id, "remove",
                                   target.role, NULL)>>,
                               invalidations |-> calls,
                               enqueued |-> <<org>>])
                /\ UNCHANGED invitations
    /\ UNCHANGED <<in_flight, now, subscriptions, invoices, webhook_events,
                   purchase_intents, event_audits, add_ons, memberships>>

\* OrganizationService.change_role
change_role(organization_id, actor_id, target_user_id, new_role) ==
    /\ LET op == "change_role"
           org == organization_id
           active == RequireActiveMembership(org_memberships, org, actor_id)
           found == RequireMembership(org_memberships, org, target_user_id)
           actor == org_memberships[<<org, actor_id>>]
           target == org_memberships[<<org, target_user_id>>]
           calls == _invalidate_member_entitlements(Organizations[org],
                                                    target_user_id)
       IN  IF get_organization(org) = {}
           THEN OrgRaise(op, org, actor_id, target_user_id, new_role, NULL,
                         "LookupError")
           ELSE IF active # "ok"
           THEN OrgRaise(op, org, actor_id, target_user_id, new_role, NULL,
                         active)
           ELSE IF found # "ok"
           THEN OrgRaise(op, org, actor_id, target_user_id, new_role, NULL,
                         found)
           ELSE IF \/ OwnerOnly(actor.role, target.role)
                   \/ OwnerOnly(actor.role, new_role)
                   \/ ~_role_allows_assignment(actor.role, new_role)
           THEN OrgRaise(op, org, actor_id, target_user_id, new_role, NULL,
                         "PermissionError")
           ELSE /\ org_memberships' =
                      save_membership(org_memberships, org, target_user_id,
                                      [target EXCEPT !.role = new_role])
                /\ entries' = InvalidateAll(entries, calls)
                /\ last' =
                      OrgCall(op, org, actor_id, target_user_id, new_role,
                              NULL, "ok",
                              [audits |-> <<MembershipAuditEvent(
                                   org, actor_id, target_user_id,
                                   "role_change", target.role, new_role)>>,
                               invalidations |-> calls,
                               enqueued |-> <<>>])
                /\ UNCHANGED invitations
    /\ UNCHANGED <<in_flight, now, subscriptions, invoices, webhook_events,
                   purchase_intents, event_audits, add_ons, memberships>>

\* ------------------------------------------- the organization service alone
MemberIds == {"u1", "u2"}

Tokens == {"token-1"}

\* an explicit expiry one clock step after the start, or the default lifetime
ExpiresAtChoices == {NoTime, ClockStep}

\* the memberships an organization starts from: the owner who created it
SeededMemberships(org) ==
    {(<<org, "u1">> :> OrganizationMembership("owner", "active"))}

\* organization o1, billed through sub_1, with its owner
InitMembers ==
    /\ now = 0
    /\ subscriptions = << >>
    /\ invoices = << >>
    /\ webhook_events = {}
    /\ purchase_intents = << >>
    /\ event_audits = [e \in EventIds |-> 0]
    /\ add_ons = [s \in SubIds |-> <<>>]
    /\ memberships = << >>
    /\ entries = << >>
    /\ in_flight = << >>
    /\ org_memberships \in SeededMemberships("o1")
    /\ invitations = << >>
    /\ last = NoCall

\* the clock runs one step, far enough for an explicit expiry to pass
NextMembers ==
    \/ (now < ClockStep /\ AdvanceClock)
    \/ \E inviter \in MemberIds, role \in MembershipRoles,
          exp \in ExpiresAtChoices, t \in Tokens :
          invite_member("o1", inviter, role, exp, t)
    \/ \E t \in Tokens, user \in MemberIds : accept_invitation(t, user)
    \/ \E actor \in MemberIds, target \in MemberIds :
          remove_member("o1", actor, target)
    \/ \E actor \in MemberIds, target \in MemberIds,
          role \in MembershipRoles : change_role("o1", actor, target, role)

SpecMembers == InitMembers /\ [][NextMembers]_vars

\* ------------------------------------------------------------------- C31
\* the membership of a user in an organization is active with at least the
\* rank of the role
ActiveWithRank(ms, organization_id, user_id, role) ==
    /\ <<organization_id, user_id>> \in DOMAIN ms
    /\ ms[<<organization_id, user_id>>].status = "active"
    /\ ROLE_HIERARCHY[ms[<<organization_id, user_id>>].role]
          >= ROLE_HIERARCHY[role]

\* the keys of a dict whose entry is new or differs from the one before
Written(before, after) ==
    {k \in DOMAIN after : k \notin DOMAIN before \/ after[k] # before[k]}

\* C31: no privilege escalation in role assignment. invite_member and
\* change_role succeed only for an actor whose membership is ACTIVE with a
\* rank at least that of the role assigned; an invitation is written only by
\* such an invite_member and carries the role it was issued for; a user comes
\* to hold a role only through such a change_role or by accepting an
\* invitation, with the invitation's role. A denied invite_member creates no
\* invitation and logs no audit event.
C31_NoPrivilegeEscalation ==
    [][now' = now =>
         /\ (last'.op \in {"invite_member", "change_role"}
                /\ last'.result = "ok")
            => ActiveWithRank(org_memberships, last'.organization_id,
                              last'.actor_id, last'.role)
         /\ \A t \in Written(invitations, invitations') :
               /\ last'.op = "invite_member"
               /\ last'.result = "ok"
               /\ last'.token = t
               /\ invitations'[t].role = last'.role
               /\ invitations'[t].inviter_id = last'.actor_id
               /\ invitations'[t].organization_id = last'.organization_id
         /\ \A k \in Written(org_memberships, org_memberships') :
               \/ /\ last'.op = "change_role"
                  /\ last'.result = "ok"
                  /\ k = <<last'.organization_id, last'.target_user_id>>
                  /\ org_memberships'[k].role = last'.role
               \/ /\ last'.op = "accept_invitation"
                  /\ last'.result = "ok"
                  /\ last'.token \in DOMAIN invitations
                  /\ k = <<invitations[last'.token].organization_id,
                           last'.target_user_id>>
                  /\ org_memberships'[k].role = invitations[last'.token].role
               \/ /\ last'.op = "remove_member"
                  /\ last'.result = "ok"
                  /\ k \in DOMAIN org_memberships
                  /\ org_memberships'[k].role = org_memberships[k].role
                  /\ org_memberships'[k].status = "revoked"
         /\ (last'.op = "invite_member" /\ last'.result # "ok")
            => /\ invitations' = invitations
               /\ last'.audits = <<>>]_vars

\* u2, who joined as an admin through an invitation, asks to invite an owner
\* and is denied
C31_Witness ==
    /\ last.op = "invite_member"
    /\ last.actor_id = "u2"
    /\ last.role = "owner"
    /\ last.result = "PermissionError"
    /\ org_memberships[<<"o1", "u2">>] = OrganizationMembership("admin", "active")
    /\ invitations = << >>
    /\ last.audits = <<>>

\* ------------------------------------------------------------------- C32
\* the operation left the organization's state and collaborators untouched
OrgStateUnchanged ==
    /\ org_memberships' = org_memberships
    /\ invitations' = invitations
    /\ entries' = entries
    /\ last'.audits = <<>>
    /\ last'.invalidations = <<>>
    /\ last'.enqueued = <<>>

\* the role a user holds in an organization, NULL without a membership
OrgRoleOf(ms, organization_id, user_id) ==
    IF <<organization_id, user_id>> \in DOMAIN ms
    THEN ms[<<organization_id, user_id>>].role ELSE NULL

\* C32: an OWNER membership is never revoked or re-roled by an actor who is
\* not an active OWNER. remove_member and change_role aimed at an owner by
\* an actor whose role is admin or member raise PermissionError and leave
\* memberships, invitations, audit log, invalidations and seat queue alone;
\* whenever either operation does write an owner's membership, the actor was
\* an ACTIVE owner.
C32_OwnerProtected ==
    [][(now' = now /\ last'.op \in {"remove_member", "change_role"})
         => LET org == last'.organization_id
                actor_role == OrgRoleOf(org_memberships, org, last'.actor_id)
                target_role ==
                    OrgRoleOf(org_memberships, org, last'.target_user_id)
            IN  /\ (target_role = "owner" /\ actor_role \in {"admin", "member"})
                   => /\ last'.result = "PermissionError"
                      /\ OrgStateUnchanged
                /\ (/\ target_role = "owner"
                    /\ org_memberships' # org_memberships)
                   => ActiveWithRank(org_memberships, org, last'.actor_id,
                                     "owner")]_vars

\* the admin u2 asks to make the owner u1 a member and is refused
C32_Witness ==
    /\ last.op = "change_role"
    /\ last.actor_id = "u2"
    /\ last.target_user_id = "u1"
    /\ last.role = "member"
    /\ last.result = "PermissionError"
    /\ org_memberships[<<"o1", "u1">>] = OrganizationMembership("owner", "active")
    /\ org_memberships[<<"o1", "u2">>] = OrganizationMembership("admin", "active")

\* ------------------------------------------------------------------- C33
\* C33: change_role surfaces every role-hierarchy violation as
\* PermissionError: whenever the target's current role outranks the actor's
\* role the call raises PermissionError and the memberships stay as they
\* were; in particular a MEMBER never changes the role of an ADMIN.
C33_ChangeRoleRespectsHierarchy ==
    [][(now' = now /\ last'.op = "change_role")
         => LET org == last'.organization_id
                actor_role == OrgRoleOf(org_memberships, org, last'.actor_id)
                target_role ==
                    OrgRoleOf(org_memberships, org, last'.target_user_id)
            IN  (/\ actor_role # NULL
                 /\ target_role # NULL
                 /\ ROLE_HIERARCHY[target_role] > ROLE_HIERARCHY[actor_role])
                => /\ last'.result = "PermissionError"
                   /\ org_memberships' = org_memberships]_vars

\* ------------------------------------------------------------------- C34
\* remove_member is allowed: the actor is ACTIVE, the target has a
\* membership, and the actor is the target or strictly outranks it
MayRemove(ms, org, actor_id, target_user_id) ==
    /\ ActiveWithRank(ms, org, actor_id, "member")
    /\ <<org, target_user_id>> \in DOMAIN ms
    /\ \/ actor_id = target_user_id
       \/ ROLE_HIERARCHY[ms[<<org, actor_id>>].role]
             > ROLE_HIERARCHY[ms[<<org, target_user_id>>].role]

\* C34: remove_member succeeds exactly when the actor holds an ACTIVE
\* membership and is the target or strictly outranks it. On success the
\* target's record is kept, role unchanged, with status REVOKED, so that it
\* no longer consumes a seat, and exactly one REMOVED audit event is logged.
\* Otherwise it raises and changes nothing: LookupError when the actor has no
\* membership, or when the actor is ACTIVE and the target has none;
\* PermissionError in every other case.
C34_RemoveMember ==
    [][(now' = now /\ last'.op = "remove_member")
         => LET org == last'.organization_id
                actor_id == last'.actor_id
                target == last'.target_user_id
                k == <<org, target>>
                ms == org_memberships
            IN  /\ last'.result = "ok" <=> MayRemove(ms, org, actor_id, target)
                /\ last'.result = "ok"
                   => /\ org_memberships' =
                            Put(ms, k, [role |-> ms[k].role,
                                        status |-> "revoked"])
                      /\ ~consumes_seat(org_memberships'[k])
                      /\ invitations' = invitations
                      /\ Len(last'.audits) = 1
                      /\ last'.audits[1].action = "remove"
                      /\ last'.audits[1].subject_id = target
                      /\ last'.audits[1].actor_id = actor_id
                      /\ last'.audits[1].role_before = ms[k].role
                /\ last'.result # "ok"
                   => /\ OrgStateUnchanged
                      /\ last'.result =
                            IF <<org, actor_id>> \notin DOMAIN ms
                            THEN "LookupError"
                            ELSE IF ms[<<org, actor_id>>].status # "active"
                            THEN "PermissionError"
                            ELSE IF k \notin DOMAIN ms
                            THEN "LookupError"
                            ELSE "PermissionError"]_vars

\* the owner u1 removed the member u2: the record stays, revoked
C34_Witness ==
    /\ last.op = "remove_member"
    /\ last.actor_id = "u1"
    /\ last.target_user_id = "u2"
    /\ last.result = "ok"
    /\ org_memberships[<<"o1", "u1">>] = OrganizationMembership("owner", "active")
    /\ org_memberships[<<"o1", "u2">>] = OrganizationMembership("member", "revoked")
    /\ Len(last.audits) = 1
    /\ last.enqueued = <<"o1">>

\* C34 as first stated: a failing remove_member raises LookupError exactly
\* when a membership (the actor's or the target's) is missing, and
\* PermissionError otherwise
C34_LookupErrorWhenMissing ==
    [][(now' = now /\ last'.op = "remove_member" /\ last'.result # "ok")
         => (last'.result = "LookupError"
               <=> \/ <<last'.organization_id, last'.actor_id>>
                         \notin DOMAIN org_memberships
                   \/ <<last'.organization_id, last'.target_user_id>>
                         \notin DOMAIN org_memberships)]_vars

\* ------------------------------------------------------------------- C35
\* C35: accept_invitation(token, user) with a known, unexpired token creates
\* or overwrites the user's membership as ACTIVE with the invitation's role,
\* logs exactly one ACCEPTED audit event and deletes the invitation, so that
\* the token is unknown to the next call; an expired token raises
\* PermissionError and an unknown token LookupError, and neither changes
\* memberships, invitations, audit log, invalidations or seat queue.
C35_AcceptInvitation ==
    [][(now' = now /\ last'.op = "accept_invitation")
         => LET token == last'.token
                user_id == last'.actor_id
            IN  IF token \notin DOMAIN invitations
                THEN /\ last'.result = "LookupError"
                     /\ OrgStateUnchanged
                ELSE IF invitations[token].expires_at <= now
                THEN /\ last'.result = "PermissionError"
                     /\ OrgStateUnchanged
                ELSE LET inv == invitations[token]
                     IN  /\ last'.result = "ok"
                         /\ org_memberships' =
                               Put(org_memberships,
                                   <<inv.organization_id, user_id>>,
                                   [role |-> inv.role, status |-> "active"])
                         /\ token \notin DOMAIN invitations'
                         /\ \A t \in DOMAIN invitations \ {token} :
                               /\ t \in DOMAIN invitations'
                               /\ invitations'[t] = invitations[t]
                         /\ Len(last'.audits) = 1
                         /\ last'.audits[1].action = "accept"
                         /\ last'.audits[1].subject_id = user_id
                         /\ last'.audits[1].role_after = inv.role]_vars

\* u2 accepted an invitation issued for an admin: the membership is ACTIVE
\* with that role, one event is logged and the invitation is gone
C35_Witness ==
    /\ last.op = "accept_invitation"
    /\ last.actor_id = "u2"
    /\ last.result = "ok"
    /\ last.role = "admin"
    /\ Len(last.audits) = 1
    /\ last.audits[1].action = "accept"
    /\ org_memberships[<<"o1", "u2">>] = OrganizationMembership("admin", "active")
    /\ invitations = << >>

\* a second accept_invitation with a token already accepted: LookupError
C35_SecondAcceptWitness ==
    /\ last.op = "accept_invitation"
    /\ last.actor_id = "u1"
    /\ last.result = "LookupError"
    /\ <<"o1", "u2">> \in DOMAIN org_memberships
    /\ org_memberships[<<"o1", "u2">>].status = "active"

\* an invitation that expired at the first clock step is refused and kept
C35_ExpiredWitness ==
    /\ last.op = "accept_invitation"
    /\ last.result = "PermissionError"
    /\ now = ClockStep
    /\ "token-1" \in DOMAIN invitations
    /\ invitations["token-1"].expires_at = ClockStep

\* ------------------------------- organizations with and without a subscription
MemberOrgIds == {"o1", "o2", "o3"}

\* one of the two organizations, with its owner; o3 is unknown to the repository
InitOrganizations ==
    /\ now = 0
    /\ subscriptions = << >>
    /\ invoices = << >>
    /\ webhook_events = {}
    /\ purchase_intents = << >>
    /\ event_audits = [e \in EventIds |-> 0]
    /\ add_ons = [s \in SubIds |-> <<>>]
    /\ memberships = << >>
    /\ entries = << >>
    /\ in_flight = << >>
    /\ \E org \in DOMAIN Organizations :
          org_memberships \in SeededMemberships(org)
    /\ invitations = << >>
    /\ last = NoCall

NextOrganizations ==
    \/ \E org \in MemberOrgIds, inviter \in MemberIds,
          role \in MembershipRoles, t \in Tokens :
          invite_member(org, inviter, role, NoTime, t)
    \/ \E t \in Tokens, user \in MemberIds : accept_invitation(t, user)
    \/ \E org \in MemberOrgIds, actor \in MemberIds, target \in MemberIds :
          remove_member(org, actor, target)
    \/ \E org \in MemberOrgIds, actor \in MemberIds, target \in MemberIds,
          role \in MembershipRoles : change_role(org, actor, target, role)

SpecOrganizations == InitOrganizations /\ [][NextOrganizations]_vars

\* ------------------------------------------------------------------- C36
\* the tags a membership change of the user in the organization must invalidate
MemberTags(organization_id, user_id) ==
    {Tag("organization", organization_id), Tag("user", user_id)}
    \cup (IF Organizations[organization_id].subscription_id = NULL THEN {}
          ELSE {Tag("subscription",
                    Organizations[organization_id].subscription_id)})

\* C36: every successful accept_invitation, remove_member and change_role
\* invalidates the organization, the organization's subscription when it has
\* one, and the affected user, exactly once each; accept_invitation and
\* remove_member also enqueue exactly one seat-reconciliation event for the
\* organization, change_role enqueues none, and invite_member neither
\* invalidates nor enqueues.
C36_InvalidateAndEnqueue ==
    /\ (last.op \in {"accept_invitation", "remove_member", "change_role"}
          /\ last.result = "ok")
       => LET expected == MemberTags(last.organization_id, last.target_user_id)
          IN  /\ TagsOf(last.invalidations) = expected
              /\ Len(last.invalidations) = Cardinality(expected)
              /\ last.enqueued = IF last.op = "change_role" THEN <<>>
                                 ELSE <<last.organization_id>>
    /\ last.op = "invite_member"
       => /\ last.invalidations = <<>>
          /\ last.enqueued = <<>>

\* a removal in o2, which has no subscription: two invalidations, one seat event
C36_Witness ==
    /\ last.op = "remove_member"
    /\ last.result = "ok"
    /\ last.organization_id = "o2"
    /\ last.target_user_id = "u2"
    /\ last.invalidations = <<Tag("organization", "o2"), Tag("user", "u2")>>
    /\ last.enqueued = <<"o2">>

\* a role change in o1, billed through sub_1: three invalidations, no seat event
C36_BilledWitness ==
    /\ last.op = "change_role"
    /\ last.result = "ok"
    /\ last.organization_id = "o1"
    /\ last.target_user_id = "u2"
    /\ last.invalidations = <<Tag("organization", "o1"),
                              Tag("subscription", "sub_1"), Tag("user", "u2")>>
    /\ last.enqueued = <<>>

\* -------------------------------------------- webhooks whose handler raises
\* deliveries that fail and the one that repairs their cause: subscription
\* events without a sub-payload, with an unknown plan_key, or creating sub_1
\* for user u1; invoice events without a sub-payload, without a
\* subscription_id, or about sub_1
ErrorWebhookEvents ==
    {e \in WebhookEvents :
        /\ e.event_type \in SubscriptionEventTypes
           => /\ e.event_type = "subscription.created"
              /\ \/ ~e.payload.subscription.present
                 \/ /\ e.payload.subscription.customer_type = "user"
                    /\ e.payload.subscription.status = "active"
                    /\ e.payload.subscription.seat_quantity = 1
                    /\ e.payload.subscription.grace_period_expires_at = NoTime}

NextWebhookErrors ==
    \/ \E event \in ErrorWebhookEvents : handle_webhook(event)
    \/ \E s \in ProviderSubIds : process_grace_period_expiration(s)

SpecWebhookErrors == Init /\ [][NextWebhookErrors]_vars

\* ------------------------------------------------------------------- C37
\* C37: when handle_webhook raises (ValueError for a missing subscription or
\* invoice sub-payload or an invalid plan_key, LookupError for an invoice
\* event whose subscription does not exist) the error reaches the caller and
\* no subscription has been created or modified, no audit event logged, no
\* notification sent and no invalidation issued.
C37_RaisingWebhookLeavesNoTrace ==
    [][(/\ last'.op = "handle_webhook"
        /\ last'.event_id \notin webhook_events
        /\ last'.result # "ok")
         => /\ last'.result \in {"ValueError", "LookupError"}
            /\ subscriptions' = subscriptions
            /\ event_audits' = event_audits
            /\ entries' = entries
            /\ last'.audits = <<>>
            /\ last'.notifications = <<>>
            /\ last'.invalidations = <<>>]_vars

\* a payment failure for sub_1, which the repository does not hold
C37_Witness ==
    /\ last.op = "handle_webhook"
    /\ last.event_type = "invoice.payment_failed"
    /\ last.subscription_id = "sub_1"
    /\ last.result = "LookupError"
    /\ subscriptions = << >>
    /\ last.notifications = <<>>
    /\ last.audits = <<>>

\* a subscription event with an unknown plan_key
C37_InvalidPlanWitness ==
    /\ last.op = "handle_webhook"
    /\ last.event_type = "subscription.created"
    /\ last.subscription_id = "sub_1"
    /\ last.result = "ValueError"
    /\ subscriptions = << >>

\* ------------------------------------------------------------------- C39
\* C39: handle_webhook records the event_id before dispatching. When the
\* handler raises, the event_id is recorded all the same, and with an invoice
\* event that failed at the subscription lookup so is the invoice; recorded
\* event ids and invoices are never removed; and every later delivery of a
\* recorded event_id returns without processing, whatever has happened to the
\* cause of the failure: no subscription, invoice, audit entry, notification
\* or invalidation comes of it.
C39_FailedEventStaysRecorded ==
    [][/\ webhook_events \subseteq webhook_events'
       /\ DOMAIN invoices \subseteq DOMAIN invoices'
       /\ last'.op = "handle_webhook"
          => /\ last'.event_id \in webhook_events'
             /\ (last'.result = "LookupError" /\ ~last'.duplicate)
                => last'.invoice_id \in DOMAIN invoices'
             /\ last'.event_id \in webhook_events
                => /\ last'.duplicate
                   /\ last'.result = "ok"
                   /\ BillingStateUnchanged
                   /\ last'.audits = <<>>
                   /\ last'.notifications = <<>>
                   /\ last'.invalidations = <<>>]_vars

\* evt_1, a payment failure, raised LookupError while sub_1 was unknown; sub_1
\* has been created since; evt_1 is delivered again and nothing happens: the
\* subscription is still active and the event has no audit entry
C39_Witness ==
    /\ last.op = "handle_webhook"
    /\ last.event_id = "evt_1"
    /\ last.event_type = "invoice.payment_failed"
    /\ last.subscription_id = "sub_1"
    /\ last.duplicate
    /\ last.result = "ok"
    /\ "sub_1" \in DOMAIN subscriptions
    /\ subscriptions["sub_1"].status = "active"
    /\ event_audits["evt_1"] = 0
    /\ "in_1" \in DOMAIN invoices

\* ------------------------------- reconcile_seats, any guarded call may raise
\* the calls inside the try block of reconcile_seats, in order; "none": no
\* call raises
GuardedCalls ==
    {"none", "update_subscription_seats", "upsert_subscription",
     "_invalidate_entitlements", "record_seat_reconciliation"}

\* the except branch: the overage is notified and recorded with the
\* subscription as it was read at the start of the call
OverageRequiresAction(subs, subscription, member_count, invalidations) ==
    [subscriptions |-> subs, provider_calls |-> <<member_count>>,
     invalidations |-> invalidations,
     notifications |->
        <<Notification("seat_overage", subscription, NULL, NoTime,
                       member_count)>>,
     recorded |->
        <<Reconciliation(subscription, member_count,
                         "overage_requires_action")>>]

\* the try block of reconcile_seats when the named call raises: the provider
\* call and a rolled-back upsert leave the store alone; the invalidator
\* (raising on its first call) and record_seat_reconciliation raise after the
\* upsert has been committed
GuardedBlock(subs, subscription, member_count, raising) ==
    LET persisted == update_subscription_seats(subscription, member_count)
    IN  IF raising = "none"
        THEN ProviderSucceeded(subs, subscription, member_count)
        ELSE IF raising \in {"update_subscription_seats", "upsert_subscription"}
        THEN OverageRequiresAction(subs, subscription, member_count, <<>>)
        ELSE IF raising = "_invalidate_entitlements"
        THEN OverageRequiresAction(upsert_subscription(subs, persisted),
                                   subscription, member_count, <<>>)
        ELSE OverageRequiresAction(upsert_subscription(subs, persisted),
                                   subscription, member_count,
                                   _invalidate_entitlements(persisted))

\* BillingService.reconcile_seats with the guarded call that raises, if any,
\* named by the caller of the action
reconcile_seats_raising(subscription_id, member_count, raising) ==
    LET found == Lookup(subscriptions, subscription_id)
    IN  /\ IF found = {}
           THEN /\ last' = [op |-> "reconcile_seats",
                            subscription_id |-> subscription_id,
                            member_count |-> member_count,
                            result |-> "LookupError"] @@ NoCall
                /\ UNCHANGED <<subscriptions, entries>>
           ELSE IF member_count < 0
           THEN /\ last' = [op |-> "reconcile_seats",
                            subscription_id |-> subscription_id,
                            member_count |-> member_count,
                            result |-> "ValueError"] @@ NoCall
                /\ UNCHANGED <<subscriptions, entries>>
           ELSE LET subscription == CHOOSE x \in found : TRUE
                    r == IF member_count > subscription.seat_quantity
                         THEN GuardedBlock(subscriptions, subscription,
                                           member_count, raising)
                         ELSE ReconcileExisting(subscriptions, subscription,
                                                member_count, TRUE)
                IN  /\ subscriptions' = r.subscriptions
                    /\ entries' = InvalidateAll(entries, r.invalidations)
                    /\ last' = [op |-> "reconcile_seats",
                                subscription_id |-> subscription_id,
                                member_count |-> member_count,
                                result |-> "ok",
                                raising |-> raising,
                                provider_raises |->
                                    raising = "update_subscription_seats",
                                outcome |-> r.recorded[1].outcome,
                                provider_calls |-> r.provider_calls,
                                invalidations |-> r.invalidations,
                                notifications |-> r.notifications,
                                recorded |-> r.recorded] @@ NoCall
        /\ UNCHANGED <<in_flight, now, invoices, webhook_events,
                       purchase_intents, event_audits, add_ons, memberships,
                       org_memberships, invitations>>

\* subscriptions are created by webhook, then reconciled
SeatWebhookEvents ==
    {e \in CheckoutWebhookEvents :
        /\ e.event_type = "subscription.created"
        /\ e.payload.subscription.status = "active"}

NextSeatFailures ==
    \/ \E event \in SeatWebhookEvents : handle_webhook(event)
    \/ \E s \in ProviderSubIds, m \in 0..(MaxSeats + 1), c \in GuardedCalls :
          reconcile_seats_raising(s, m, c)

SpecSeatFailures == Init /\ [][NextSeatFailures]_vars

\* ------------------------------------------------------------------- C38
\* C38: whenever reconcile_seats returns overage_requires_action, whichever
\* call of its guarded block raised, the persisted subscription, its
\* seat_quantity included, is what it was before the call.
C38_OverageLeavesSubscriptionUntouched ==
    [][(/\ last'.op = "reconcile_seats"
        /\ last'.outcome = "overage_requires_action")
         => subscriptions' = subscriptions]_vars

\* ------------------------------ cached entitlements of a subscription's users
\* sub_1 is created, canceled or reactivated for user u1 or organization o1
TagWebhookEvents ==
    {e \in CheckoutWebhookEvents :
        /\ e.event_type \in SubscriptionEventTypes
        /\ e.payload.subscription.status \in {"active", "canceled"}}

\* u1 on their own and u2 as a member of o1, each with and without sub_1
TagRequests ==
    {<<Subject("u1", NULL), NULL>>, <<Subject("u1", NULL), "sub_1">>,
     <<Subject("u2", "o1"), NULL>>, <<Subject("u2", "o1"), "sub_1">>}

NextTags ==
    \/ \E event \in TagWebhookEvents : handle_webhook(event)
    \/ \E r \in TagRequests : get_entitlements(r[1], r[2])
    \/ AddMembership("u2", "o1", "member")
    \/ invalidate_tag("subscription", "sub_1")

SpecTags == Init /\ [][NextTags]_vars

\* ------------------------------------------------------------------- C40
\* the request a cache key was derived from
KeySubject(key) == Subject(key[2], IF key[4] = "self" THEN NULL ELSE key[4])

KeySubscriptionId(key) == IF key[6] = "none" THEN NULL ELSE key[6]

\* what get_entitlements computes for the request of a key in this state
Computed(key) ==
    _compute_payload(
        KeySubject(key),
        _resolve_subscription(subscriptions, add_ons, KeySubscriptionId(key)),
        RoleOf(KeySubject(key)))

\* C40: every cache entry written by get_entitlements(subject, S) is stored
\* under subject.cache_key(S) with exactly the tags subject.tags(S), the
\* entries that fell back to the free plan included; after
\* invalidate_subscription(S) no entry computed for S remains; and every
\* entry still cached holds what a fresh computation would give, so that a
\* recovery of S shows on the next call.
C40_EntriesTaggedBySubscription ==
    /\ \A k \in DOMAIN entries :
          /\ k = cache_key(KeySubject(k), KeySubscriptionId(k))
          /\ entries[k].tags = tags(KeySubject(k), KeySubscriptionId(k))
          /\ entries[k].value.payload = Computed(k)
    /\ \A s \in SubIds :
          (last.op = "invalidate" /\ last.tag_set = {Tag("subscription", s)})
          => \A k \in DOMAIN entries : KeySubscriptionId(k) # s
    /\ (last.op = "get_entitlements" /\ last.result = "ok")
       => \E r \in last.returned :
             r.payload =
                Computed(cache_key(CHOOSE x \in last.subject : TRUE,
                                   last.subscription_id))

\* u2 of o1 asked with sub_1 while sub_1 was canceled: the free plan is cached
\* under the key of sub_1 with the three tags
C40_Witness ==
    LET k == cache_key(Subject("u2", "o1"), "sub_1")
    IN  /\ k \in DOMAIN entries
        /\ entries[k].value.payload.plan = "free"
        /\ entries[k].tags = {Tag("user", "u2"), Tag("organization", "o1"),
                              Tag("subscription", "sub_1")}
        /\ "sub_1" \in DOMAIN subscriptions
        /\ subscriptions["sub_1"].status = "canceled"

\* sub_1 was delivered twice, ending active for o1, and the next call of u2
\* returns the team plan
C40_RecoveryWitness ==
    /\ last.op = "get_entitlements"
    /\ last.subject = {Subject("u2", "o1")}
    /\ last.subscription_id = "sub_1"
    /\ webhook_events = EventIds
    /\ \E r \in last.returned : r.payload.plan = "team"

====
